---------------------------- MODULE Spec2Model ----------------------------
(***************************************************************************)
(* A model of srpo.py: the wait primitive (find_element polled by a       *)
(* WebDriverWait), and the navigation operations of class SRPO; of         *)
(* activity_parser.py: ActivityParser.parse and the methods of Activity;  *)
(* and of the main blocks of update_sheets.py and gen_pdfs.py.             *)
(*                                                                         *)
(* Strings are sequences of characters; a character is a one-element       *)
(* string, and a character outside ASCII is written by its code point      *)
(* ("U+00E9").                                                             *)
(***************************************************************************)
EXTENDS Integers, Sequences, FiniteSets, TLC

VARIABLES
    \* ---- the wait primitive (SpecFind) ----
    fe,         \* the find_element object: tag-independent criteria
    dom,        \* the elements of the tag currently rendered, in enumeration order
    w_pc,       \* position in WebDriverWait.until: "poll", "sleep", "returned", "timeout"
    clock,      \* polling intervals elapsed since the wait began
    value,      \* result of the last __call__: index into dom, 0 for False
    fresh,      \* TRUE while dom is still the element list the last __call__ saw
    returned,   \* the element the wait returned (empty before)
    \* ---- the SRPO object and the operation it is running (Spec) ----
    driver,     \* self.driver: "None" before login, "open" after
    output_dir, \* self.output_dir: [given, files]
    download_dir, \* self.download_dir: [exists, files]
    op,         \* the operation called last
    arg,        \* its argument (area, label, activity)
    outcome,    \* "idle", "running", "returned", or the exception that reached the caller
    phase,      \* which part of the operation runs: "steps" is the table Steps(op, arg)
    pc,         \* position in the table
    polls,      \* polling intervals elapsed in the wait under way
    log,        \* the interactions the operation has performed, in order
    swallowed,  \* positions of the table whose Timeout was caught by the operation
    \* ---- set_area ----
    tries,      \* iterations of the tree polling loop done
    spans,      \* the span elements of the last poll: [count, items]
    \* ---- get_activities and the listing the browser shows ----
    pages,      \* number of pages of the listing
    layout,     \* accessible names of the anchors of a page, in document order
    page,       \* the page shown
    modal,      \* the records whose detail view is open
    links,      \* activity links of the page shown (positions in layout)
    li,         \* position in links of the loop over them
    cur,        \* the Activity parsed out of the open record (empty before)
    activities, \* the list get_activities builds
    \* ---- ActivityParser.parse (SpecParse) ----
    markup,     \* the page source of a record, as the tags parse looks for
    result,     \* what parse gave: the exception raised, or the Activity
    earlier,    \* the records parsed before this one: [markup, result] of each
    \* ---- an Activity and its methods (SpecParse, SpecFormat) ----
    subject,    \* the Activity whose methods are called (empty before)
    doc,        \* what its methods gave: [kind, label, document, exc]
    \* ---- the command-line callers (SpecMain) ----
    prog,       \* the script run and its choice of data
    main_pc,    \* position in the script's main block
    sheet       \* what happened at the Sheet object: requests sent, results given

findVars == <<fe, dom, w_pc, clock, value, fresh, returned>>

objVars == <<driver, output_dir, download_dir>>

opVars == <<op, arg, outcome, phase, pc, polls, log, swallowed>>

areaVars == <<tries, spans>>

listVars == <<pages, layout, page, modal, links, li, cur, activities>>

navVars == <<objVars, opVars, areaVars, listVars>>

parseVars == <<markup, result, earlier, subject, doc>>

mainVars == <<prog, main_pc, sheet>>

vars == <<findVars, navVars, parseVars, mainVars>>

-----------------------------------------------------------------------------
(* Characters and strings *)

NonAscii == {"U+00E9", "U+00A0", "U+00D7", "U+2019"}

Whitespace == {" ", "\t", "\n"}

\* str.encode("ascii", "ignore").decode(): the characters outside ASCII are dropped
IsAsciiChar(c) == c \notin NonAscii

ascii_ignore(s) == SelectSeq(s, IsAsciiChar)

RECURSIVE lstrip(_)
\* str.strip(), leading part
lstrip(s) ==
    IF s = <<>> THEN s
    ELSE IF Head(s) \in Whitespace THEN lstrip(Tail(s)) ELSE s

RECURSIVE rstrip(_)
\* str.strip(), trailing part
rstrip(s) ==
    IF s = <<>> THEN s
    ELSE IF s[Len(s)] \in Whitespace THEN rstrip(SubSeq(s, 1, Len(s) - 1)) ELSE s

strip(s) == rstrip(lstrip(s))

startswith(s, p) == Len(p) <= Len(s) /\ SubSeq(s, 1, Len(p)) = p

endswith(s, p) == Len(p) <= Len(s) /\ SubSeq(s, Len(s) - Len(p) + 1, Len(s)) = p

Range(f) == {f[i] : i \in DOMAIN f}

-----------------------------------------------------------------------------
(* find_element *)

\* A criterion (the name or the text argument of __init__): not given (None),
\* a string, or for the membership comparator a list of strings.
None == [given |-> FALSE, val |-> <<>>, choices |-> <<>>]

Given(s) == [given |-> TRUE, val |-> s, choices |-> <<>>]

GivenChoices(l) == [given |-> TRUE, val |-> <<>>, choices |-> l]

\* the comparators the callers pass: the default (equality), str.startswith,
\* str.endswith, and membership of the element's string in a list of choices;
\* s1 is the element's string, c the criterion handed to __init__
comparator(cmp, s1, c) ==
    CASE cmp = "eq" -> s1 = c.val
      [] cmp = "startswith" -> startswith(s1, c.val)
      [] cmp = "endswith" -> endswith(s1, c.val)
      [] cmp = "in" -> s1 \in Range(c.choices)

\* cleaned_name, swapped order: stripped before the non-ASCII characters go
cleaned_name_strip_first(e) == ascii_ignore(strip(e.accessible_name))

\* cleaned_name: non-ASCII characters dropped, then whitespace stripped
cleaned_name(e) == strip(ascii_ignore(e.accessible_name))

\* the body of the for loop for one element: TRUE when e is returned
element_matches_either(f, e) ==
    LET matches_name == (~f.name.given) \/ comparator(f.cmp, cleaned_name(e), f.name)
        matches_text == (~f.text.given) \/ comparator(f.cmp, e.text, f.text)
    IN  matches_name \/ matches_text

element_matches(f, e) ==
    LET matches_name0 == ~f.name.given
        matches_text0 == ~f.text.given
        matches_name ==
            IF f.name.given /\ comparator(f.cmp, cleaned_name(e), f.name)
            THEN TRUE ELSE matches_name0
        matches_text ==
            IF f.text.given /\ comparator(f.cmp, e.text, f.text)
            THEN TRUE ELSE matches_text0
    IN  matches_name /\ matches_text

RECURSIVE find_from(_, _, _)
\* the for loop of __call__ from element i on: the index returned, 0 for False
find_from(f, els, i) ==
    IF i > Len(els) THEN 0
    ELSE IF element_matches(f, els[i]) THEN i
    ELSE find_from(f, els, i + 1)

find_element_call(f, els) == find_from(f, els, 1)


-----------------------------------------------------------------------------
(* SRPO.__init__: the token lists of the link classifier *)

DigitChar == <<"0", "1", "2", "3", "4", "5", "6", "7", "8", "9">>

RECURSIVE decimal(_)
\* the decimal digits of x, as f"{x}" formats it
decimal(x) ==
    IF x < 10 THEN <<DigitChar[x + 1]>>
    ELSE decimal(x \div 10) \o <<DigitChar[(x % 10) + 1]>>

\* "Grade "
str_Grade == <<"G", "r", "a", "d", "e", " ">>

\* "Book "
str_Book == <<"B", "o", "o", "k", " ">>

\* [f"Grade {x}" for x in range(1, 7)]
childrens_class_grades == [x \in 1..6 |-> str_Grade \o decimal(x)]

\* the book tokens without the separator that ends them
study_circle_books_bare ==
    [x \in 1..7 |-> str_Book \o decimal(x)]
    \o [n \in 1..21 |->
          LET x == 8 + ((n - 1) \div 3)
              y == 1 + ((n - 1) % 3)
          IN  str_Book \o decimal(x) \o <<" ", "(", "U">> \o decimal(y) \o <<")">>]

\* [f"Book {x}," for x in range(1, 8)]
\*   + [f"Book {x} (U{y})," for x in range(8, 15) for y in range(1, 4)]
study_circle_books ==
    [x \in 1..7 |-> str_Book \o decimal(x) \o <<",">>]
    \o [n \in 1..21 |->
          LET x == 8 + ((n - 1) \div 3)
              y == 1 + ((n - 1) % 3)
          IN  str_Book \o decimal(x) \o <<" ", "(", "U">> \o decimal(y) \o <<")", ",">>]

junior_youth_texts ==
    <<
      \* Breezes of Confirmation
      <<"B", "r", "e", "e", "z", "e", "s", " ", "o", "f", " ", "C", "o", "n", "f", "i", "r", "m", "a", "t", "i", "o", "n">>,
      \* Wellspring of Joy
      <<"W", "e", "l", "l", "s", "p", "r", "i", "n", "g", " ", "o", "f", " ", "J", "o", "y">>,
      \* Habits of an Orderly Mind
      <<"H", "a", "b", "i", "t", "s", " ", "o", "f", " ", "a", "n", " ", "O", "r", "d", "e", "r", "l", "y", " ", "M", "i", "n", "d">>,
      \* Glimmerings of Hope
      <<"G", "l", "i", "m", "m", "e", "r", "i", "n", "g", "s", " ", "o", "f", " ", "H", "o", "p", "e">>,
      \* Walking the Straight Path
      <<"W", "a", "l", "k", "i", "n", "g", " ", "t", "h", "e", " ", "S", "t", "r", "a", "i", "g", "h", "t", " ", "P", "a", "t", "h">>,
      \* Learning About Excellence
      <<"L", "e", "a", "r", "n", "i", "n", "g", " ", "A", "b", "o", "u", "t", " ", "E", "x", "c", "e", "l", "l", "e", "n", "c", "e">>,
      \* Thinking About Numbers
      <<"T", "h", "i", "n", "k", "i", "n", "g", " ", "A", "b", "o", "u", "t", " ", "N", "u", "m", "b", "e", "r", "s">>,
      \* Observation and Insight
      <<"O", "b", "s", "e", "r", "v", "a", "t", "i", "o", "n", " ", "a", "n", "d", " ", "I", "n", "s", "i", "g", "h", "t">>,
      \* The Human Temple
      <<"T", "h", "e", " ", "H", "u", "m", "a", "n", " ", "T", "e", "m", "p", "l", "e">>,
      \* Drawing on the Power of the Word
      <<"D", "r", "a", "w", "i", "n", "g", " ", "o", "n", " ", "t", "h", "e", " ", "P", "o", "w", "e", "r", " ", "o", "f", " ", "t", "h", "e", " ", "W", "o", "r", "d">>,
      \* Spirit of Faith
      <<"S", "p", "i", "r", "i", "t", " ", "o", "f", " ", "F", "a", "i", "t", "h">>,
      \* Power of the Holy Spirit
      <<"P", "o", "w", "e", "r", " ", "o", "f", " ", "t", "h", "e", " ", "H", "o", "l", "y", " ", "S", "p", "i", "r", "i", "t">>
    >>

all_activity_prefixes ==
    childrens_class_grades \o study_circle_books \o junior_youth_texts

RECURSIVE first_prefix(_, _, _)
\* the inner loop of _get_activity_links from prefix j on: the index of the
\* prefix at which the loop breaks, 0 when it runs out
first_prefix(name, prefixes, j) ==
    IF j > Len(prefixes) THEN 0
    ELSE IF startswith(name, prefixes[j]) THEN j
    ELSE first_prefix(name, prefixes, j + 1)

\* _get_activity_links that takes every anchor of the page
RECURSIVE links_from_every_anchor(_, _)
links_from_every_anchor(anchors, i) ==
    IF i > Len(anchors) THEN <<>>
    ELSE <<i>> \o links_from_every_anchor(anchors, i + 1)

RECURSIVE links_from(_, _)
\* the outer loop of _get_activity_links from anchor i on; an anchor is
\* given by its position among the anchors of the page
links_from(anchors, i) ==
    IF i > Len(anchors) THEN <<>>
    ELSE IF first_prefix(anchors[i], all_activity_prefixes, 1) # 0
         THEN <<i>> \o links_from(anchors, i + 1)
         ELSE links_from(anchors, i + 1)

\* _get_activity_links that returns the anchors in reverse order
RECURSIVE links_from_reversed(_, _)
links_from_reversed(anchors, i) ==
    IF i > Len(anchors) THEN <<>>
    ELSE IF first_prefix(anchors[i], all_activity_prefixes, 1) # 0
         THEN links_from_reversed(anchors, i + 1) \o <<i>>
         ELSE links_from_reversed(anchors, i + 1)

get_activity_links_reversed(anchors) == links_from_reversed(anchors, 1)

\* _get_activity_links: the positions of the anchors taken as activity links
get_activity_links(anchors) == links_from(anchors, 1)

\* the accessible names the anchors of a listing page are drawn from
AnchorNames ==
    { \* "Grade 2, Sooke": an activity link
      <<"G", "r", "a", "d", "e", " ", "2", ",", " ", "S", "o", "o", "k", "e">>,
      \* "Book 10 (U1), Sooke": an activity link
      <<"B", "o", "o", "k", " ", "1", "0", " ", "(", "U", "1", ")", ",", " ", "S", "o", "o", "k", "e">>,
      \* "Book 10, Sooke": no token is a prefix of it
      <<"B", "o", "o", "k", " ", "1", "0", ",", " ", "S", "o", "o", "k", "e">>,
      \* "Next page": navigation chrome
      <<"N", "e", "x", "t", " ", "p", "a", "g", "e">> }

-----------------------------------------------------------------------------
(* The steps of the operations of SRPO *)

\* the accessible name of the verification code field (login, get_individuals_data)
VerificationPrompt ==
    "Please enter a verification code from the Google Authenticator app on your mobile device to continue."

\* valid_activities; the apostrophe of the second label is U+2019
valid_activities ==
    <<"All Activities", "ChildrenU+2019s Classes", "Junior Youth Groups", "Study Circles">>

\* wait.until(find_element(tag, <by>=key, comparator=cmp)) followed by `then`:
\* "click", "send_keys" (of arg), or "hold" (the element is kept in a variable)
Wait(tag, by, key, cmp, then, a) ==
    [kind |-> "wait", tag |-> tag, by |-> by, key |-> key, choices |-> <<>>,
     cmp |-> cmp, then |-> then, arg |-> a]

\* the same with the membership comparator over a list of choices
WaitIn(tag, by, choices, then) ==
    [kind |-> "wait", tag |-> tag, by |-> by, key |-> "", choices |-> choices,
     cmp |-> "in", then |-> then, arg |-> ""]

\* time.sleep(secs)
SleepStep(secs) ==
    [kind |-> "sleep", tag |-> "", by |-> "", key |-> secs, choices |-> <<>>,
     cmp |-> "", then |-> "sleep", arg |-> ""]

\* a call on an element held from an earlier wait
ActStep(tag, key, then, a) ==
    [kind |-> "act", tag |-> tag, by |-> "name", key |-> key, choices |-> <<>>,
     cmp |-> "", then |-> then, arg |-> a]

\* login that asks for the password first
login_steps_swapped ==
    << Wait("input", "name", "Password", "eq", "send_keys", "password"),
       Wait("input", "name", "Username", "eq", "send_keys", "username"),
       Wait("button", "name", "Login", "eq", "click", ""),
       Wait("input", "name", VerificationPrompt, "eq", "send_keys", "totp"),
       Wait("button", "name", "Continue", "eq", "click", "") >>

login_steps ==
    << Wait("input", "name", "Username", "eq", "send_keys", "username"),
       Wait("input", "name", "Password", "eq", "send_keys", "password"),
       Wait("button", "name", "Login", "eq", "click", ""),
       Wait("input", "name", VerificationPrompt, "eq", "send_keys", "totp"),
       Wait("button", "name", "Continue", "eq", "click", "") >>

set_area_steps ==
    << Wait("button", "name", "Canada", "startswith", "click", "") >>

get_cycles_data_steps(label) ==
    << Wait("a", "text", "Cycles", "eq", "click", ""),
       Wait("button", "text", " Cycles", "endswith", "click", ""),
       Wait("a", "text", label \o " Cycles", "eq", "click", ""),
       SleepStep("0.5"),
       Wait("button", "name", "EXPORT DATA|", "eq", "click", ""),
       Wait("a", "text", "Excel", "eq", "click", "") >>

get_individuals_data_steps ==
    << Wait("a", "text", "Individuals", "eq", "click", ""),
       Wait("button", "name", "EXPORT DATA|", "eq", "click", ""),
       Wait("a", "text", "Excel", "eq", "click", ""),
       Wait("input", "name", VerificationPrompt, "eq", "hold", ""),
       ActStep("input", VerificationPrompt, "send_keys", "totp"),
       Wait("button", "name", "OK", "eq", "click", "") >>

get_activities_steps(activity) ==
    << Wait("a", "text", "Activities", "eq", "click", ""),
       WaitIn("button", "text", valid_activities, "click"),
       Wait("a", "text", activity, "eq", "click", ""),
       SleepStep("1.5"),
       Wait("a", "name", "Next page", "eq", "hold", "") >>

Steps(o, a) ==
    CASE o = "login" -> login_steps
      [] o = "set_area" -> set_area_steps
      [] o = "_get_cycles_data" -> get_cycles_data_steps(a)
      [] o = "get_individuals_data" -> get_individuals_data_steps
      [] o = "get_activities" -> get_activities_steps(a)
      [] OTHER -> <<>>

\* what follows the table: the operation returns ("done") or goes on
AfterSteps(o) ==
    CASE o = "login" -> "done"
      [] o = "set_area" -> "tree_poll"
      [] o = "_get_cycles_data" -> "download"
      [] o = "get_individuals_data" -> "download"
      [] o = "get_activities" -> "listing"

\* a try block around every wait
InTryAlways(o, i) == TRUE

\* no try block at all
InTryNever(o, i) == FALSE

\* the steps inside a try ... except TimeoutException: pass
InTry(o, i) == o = "get_individuals_data" /\ i \in 4..6

\* where the except clause continues
AfterExcept(o) == "download"

\* the file the export is downloaded to
download_path(o, a) ==
    IF o = "_get_cycles_data" THEN a \o " Cycles.xlsx" ELSE "All Individuals.xlsx"

\* the entry of the log for an interaction
Entry(act, tag, key, a, idx) ==
    [act |-> act, tag |-> tag, key |-> key, arg |-> a, idx |-> idx]

\* the entry a step of the table leaves when it is performed: the click or the
\* keys that follow a wait, "found" for an element that is only held
StepEntry(st, i) ==
    Entry(IF st.then = "hold" THEN "found" ELSE st.then, st.tag,
          IF st.cmp = "in" THEN "valid_activities" ELSE st.key, st.arg, i)

-----------------------------------------------------------------------------
(* The values of the variables a specification does not use *)

FindQuiet ==
    /\ fe = [name |-> None, text |-> None, cmp |-> "eq"]
    /\ dom = <<>>
    /\ w_pc = "returned"
    /\ clock = 0
    /\ value = 0
    /\ fresh = FALSE
    /\ returned = <<>>

NoSpans == [count |-> 0, items |-> <<>>]

\* the variables when an operation is called: those of the operation start
\* afresh, and what earlier operations left of the tree and the listing is gone
OpStart(o, a) ==
    /\ op' = o
    /\ arg' = a
    /\ outcome' = "running"
    /\ phase' = "steps"
    /\ pc' = 1
    /\ polls' = 0
    /\ log' = <<>>
    /\ swallowed' = {}

AreaReset == tries' = 0 /\ spans' = NoSpans

ListReset ==
    /\ pages' = 1
    /\ layout' = <<>>
    /\ page' = 1
    /\ modal' = {}
    /\ links' = <<>>
    /\ li' = 0
    /\ cur' = <<>>
    /\ activities' = <<>>

\* the state after SRPO.__init__
NavInit ==
    /\ driver = "None"
    /\ output_dir \in {[given |-> FALSE, files |-> {}], [given |-> TRUE, files |-> {}]}
    /\ download_dir = [exists |-> TRUE, files |-> {}]
    /\ op = "none" /\ arg = "" /\ outcome = "idle" /\ phase = "done"
    /\ pc = 1 /\ polls = 0 /\ log = <<>> /\ swallowed = {}
    /\ tries = 0 /\ spans = NoSpans
    /\ pages = 1 /\ layout = <<>> /\ page = 1 /\ modal = {}
    /\ links = <<>> /\ li = 0 /\ cur = <<>> /\ activities = <<>>

NavQuiet == NavInit /\ ~output_dir.given

NoMarkup ==
    [f_tables |-> <<>>, p_tables |-> <<>>, titles |-> <<>>, locations |-> <<>>,
     dates |-> <<>>, service |-> <<>>]

\* parse has not been called
NoResult == [done |-> FALSE, exc |-> "", activity |-> <<>>]

\* no method of the Activity has been called
NoDoc == [kind |-> <<>>, label |-> <<>>, document |-> <<>>, exc |-> ""]

ParseQuiet == markup = NoMarkup /\ result = NoResult /\ earlier = <<>> /\ subject = <<>> /\ doc = NoDoc

MainQuiet == prog = "none" /\ main_pc = "none" /\ sheet = <<>>

-----------------------------------------------------------------------------
(* WebDriverWait(driver, 10).until(find_element(...)): the wait primitive *)

\* polling intervals that fit before the deadline of a wait
Deadline == 2

\* most elements of one tag rendered at a time
MaxEls == 2

ElementNames ==
    { <<"U">>, <<" ", "U", " ">>, <<"U+00E9", " ", "U">>, <<"U", "x">>, <<"U+00E9">> }

ElementTexts == { <<"x">>, <<"U">> }

Elements == [accessible_name : ElementNames, text : ElementTexts]

SeqsUpTo(S, n) == UNION {[1..k -> S] : k \in 0..n}

Doms == SeqsUpTo(Elements, MaxEls)

\* the find_element objects the waits are made with
FindElements ==
    [name : {None, Given(<<"U">>)}, text : {None, Given(<<"x">>)},
     cmp : {"eq", "startswith", "endswith"}]
    \cup [name : {None}, text : {GivenChoices(<< <<"x">>, <<"y">> >>)}, cmp : {"in"}]

InitFind ==
    /\ fe \in FindElements
    /\ dom \in Doms
    /\ w_pc = "poll"
    /\ clock = 0
    /\ value = 0
    /\ fresh = FALSE
    /\ returned = <<>>
    /\ NavQuiet /\ ParseQuiet /\ MainQuiet

\* value = method(driver); if value: return value
Poll ==
    /\ w_pc = "poll"
    /\ value' = find_element_call(fe, dom)
    /\ fresh' = TRUE
    /\ IF value' # 0
       THEN w_pc' = "returned" /\ returned' = <<dom[value']>>
       ELSE w_pc' = "sleep" /\ UNCHANGED returned
    /\ UNCHANGED <<fe, dom, clock, navVars, parseVars, mainVars>>

\* time.sleep(poll); if time.monotonic() > end_time: break; raise TimeoutException
Sleep ==
    /\ w_pc = "sleep"
    /\ clock' = clock + 1
    /\ w_pc' = IF clock' > Deadline THEN "timeout" ELSE "poll"
    /\ UNCHANGED <<fe, dom, value, fresh, returned, navVars, parseVars, mainVars>>

\* the application renders asynchronously: between polls an element appears,
\* or the page is replaced and the elements are gone
Render ==
    /\ w_pc \in {"sleep", "returned"}
    /\ \/ \E e \in Elements : Len(dom) < MaxEls /\ dom' = Append(dom, e)
       \/ dom # <<>> /\ dom' = <<>>
    /\ fresh' = FALSE
    /\ UNCHANGED <<fe, w_pc, clock, value, returned, navVars, parseVars, mainVars>>

NextFind == Poll \/ Sleep \/ Render

SpecFind == InitFind /\ [][NextFind]_vars

-----------------------------------------------------------------------------
(* SRPO: calls of the operations, and the table-driven steps *)

\* the caller calls an operation once the previous one has returned; an
\* exception ends the caller's run
CanCall == outcome \in {"idle", "returned"}

\* login, lines 172-186: the browser is started and sent to the login page
Enter_login ==
    /\ \E started \in BOOLEAN :
          /\ driver' = IF started THEN "open" ELSE driver
          /\ outcome' = IF started THEN "running" ELSE "WebDriverException"
    /\ op' = "login" /\ arg' = "" /\ phase' = "steps" /\ pc' = 1
    /\ polls' = 0 /\ log' = <<>> /\ swallowed' = {}
    /\ AreaReset /\ ListReset
    /\ UNCHANGED <<findVars, parseVars, output_dir, download_dir>>

Call_login == CanCall /\ driver = "None" /\ Enter_login /\ UNCHANGED mainVars

Areas == {"BC03 - Southeast Victoria", "British Columbia"}

Enter_set_area ==
    /\ \E area \in Areas : OpStart("set_area", area)
    /\ AreaReset /\ ListReset
    /\ UNCHANGED <<findVars, parseVars, objVars>>

Call_set_area == CanCall /\ driver = "open" /\ Enter_set_area /\ UNCHANGED mainVars

\* get_latest_cycles, get_all_cycles
Enter_get_cycles_data(label) ==
    /\ OpStart("_get_cycles_data", label)
    /\ AreaReset /\ ListReset
    /\ UNCHANGED <<findVars, parseVars, objVars>>

Call_get_cycles_data ==
    /\ CanCall /\ driver = "open"
    /\ \E label \in {"Latest", "All"} : Enter_get_cycles_data(label)
    /\ UNCHANGED mainVars

Enter_get_individuals_data ==
    /\ OpStart("get_individuals_data", "")
    /\ AreaReset /\ ListReset
    /\ UNCHANGED <<findVars, parseVars, objVars>>

Call_get_individuals_data ==
    CanCall /\ driver = "open" /\ Enter_get_individuals_data /\ UNCHANGED mainVars

\* the labels callers pass: the four valid ones, and one with a plain apostrophe
ActivityArgs == Range(valid_activities) \cup {"Children's Classes"}

\* get_activities, lines 376-383: the assertion, before any browser interaction
Call_get_activities ==
    /\ CanCall /\ driver = "open"
    /\ \E activity \in ActivityArgs : OpStart("get_activities", activity)
    /\ AreaReset /\ ListReset
    /\ UNCHANGED <<findVars, parseVars, mainVars, objVars>>

\* assert activity in valid_activities
AssertFails ==
    /\ outcome = "running" /\ op = "get_activities" /\ phase = "steps" /\ pc = 1
    /\ arg \notin Range(valid_activities)
    /\ outcome' = "AssertionError"
    /\ UNCHANGED <<findVars, parseVars, mainVars, objVars,
                   op, arg, phase, pc, polls, log, swallowed,
                   areaVars, listVars>>

\* get_activities without its assertion
InStepsUnchecked == outcome = "running" /\ phase = "steps"

\* the statements after the assertion run only when it held
InSteps ==
    /\ outcome = "running" /\ phase = "steps"
    /\ op = "get_activities" => arg \in Range(valid_activities)

CurStep == Steps(op, arg)[pc]

\* the step at pc has been performed, leaving newlog
Advance(newlog) ==
    /\ log' = newlog
    /\ polls' = 0
    /\ pc' = pc + 1
    /\ IF pc < Len(Steps(op, arg))
       THEN phase' = "steps" /\ outcome' = "running"
       ELSE /\ phase' = AfterSteps(op)
            /\ outcome' = IF AfterSteps(op) = "done" THEN "returned" ELSE "running"
    /\ UNCHANGED <<op, arg, swallowed>>

\* a poll of the wait at pc finds its element; the click or keys follow
StepWaitFound ==
    /\ InSteps /\ CurStep.kind = "wait"
    /\ Advance(Append(log, StepEntry(CurStep, pc)))
    /\ UNCHANGED <<findVars, parseVars, mainVars, objVars,
                   areaVars, listVars>>

\* a poll finds nothing and the deadline has not passed
StepWaitMiss ==
    /\ InSteps /\ CurStep.kind = "wait"
    /\ polls < Deadline
    /\ polls' = polls + 1
    /\ UNCHANGED <<findVars, parseVars, mainVars, objVars,
                   op, arg, outcome, phase, pc, log, swallowed,
                   areaVars, listVars>>

\* a poll finds nothing and the deadline passes: TimeoutException, caught by
\* the operation's except clause when the wait is inside its try block
StepWaitTimeout ==
    /\ InSteps /\ CurStep.kind = "wait"
    /\ polls = Deadline
    /\ polls' = 0
    /\ IF InTry(op, pc)
       THEN /\ swallowed' = swallowed \cup {pc}
            /\ phase' = AfterExcept(op)
            /\ UNCHANGED outcome
       ELSE /\ outcome' = "Timeout"
            /\ UNCHANGED <<phase, swallowed>>
    /\ UNCHANGED <<findVars, parseVars, mainVars, objVars,
                   op, arg, pc, log, areaVars, listVars>>

\* time.sleep(secs)
StepSleep ==
    /\ InSteps /\ CurStep.kind = "sleep"
    /\ Advance(Append(log, StepEntry(CurStep, pc)))
    /\ UNCHANGED <<findVars, parseVars, mainVars, objVars,
                   areaVars, listVars>>

\* auth.send_keys(self.get_totp())
StepAct ==
    /\ InSteps /\ CurStep.kind = "act"
    /\ Advance(Append(log, StepEntry(CurStep, pc)))
    /\ UNCHANGED <<findVars, parseVars, mainVars, objVars,
                   areaVars, listVars>>

-----------------------------------------------------------------------------
(* set_area: the tree polling loop and the click on the area's span *)

\* for _ in range(10)
TreePolls == 10

\* if len(spans) > 100
SpanThreshold == 100

\* most spans of a poll that are told apart (the others only count)
MaxSpans == 2

\* the vertical offsets (location["y"]) spans are rendered at
SpanOffsets == {120, 480}

SpanTexts == Areas

SpanItems == [text : SpanTexts, y : SpanOffsets]

\* the numbers of spans a poll may see: the threshold itself, and one more
SpanCounts == {SpanThreshold, SpanThreshold + 1}

\* what driver.find_elements(by=By.TAG_NAME, value="span") may return
SpanPolls == [count : SpanCounts, items : SeqsUpTo(SpanItems, MaxSpans)]

RECURSIVE matching_spans(_, _, _)
\* [span for span in spans if span.text == area], as positions, from i on
matching_spans(items, area, i) ==
    IF i > Len(items) THEN <<>>
    ELSE IF items[i].text = area
         THEN <<i>> \o matching_spans(items, area, i + 1)
         ELSE matching_spans(items, area, i + 1)

RECURSIVE max_from(_, _, _, _)
\* max(cands, key=lambda span: span.location["y"]) from candidate j on: a later
\* candidate replaces the best one only when its key is strictly larger
max_from(items, cands, j, best) ==
    IF j > Len(cands) THEN best
    ELSE IF items[cands[j]].y > items[best].y
         THEN max_from(items, cands, j + 1, cands[j])
         ELSE max_from(items, cands, j + 1, best)

\* the first candidate, whatever its offset
first_of(items, cands) == cands[1]

max_by_y(items, cands) == max_from(items, cands, 2, cands[1])

\* the loop over range(10) ends by break, or when the range is used up
tree_loop_ends(count, n) == count > SpanThreshold \/ n = TreePolls

\* time.sleep(0.1); spans = ...find_elements(...); if len(spans) > 100: break
TreePoll ==
    /\ outcome = "running" /\ phase = "tree_poll"
    /\ tries < TreePolls
    /\ \E sp \in SpanPolls :
          /\ spans' = sp
          /\ tries' = tries + 1
          /\ phase' = IF tree_loop_ends(sp.count, tries + 1)
                      THEN "click_area" ELSE "tree_poll"
    /\ UNCHANGED <<findVars, parseVars, mainVars, objVars,
                   op, arg, outcome, pc, polls, log, swallowed,
                   listVars>>

\* a set_area that goes on to the settle delay when no span carries the label
ClickArea_or_skip ==
    /\ outcome = "running" /\ phase = "click_area"
    /\ LET cands == matching_spans(spans.items, arg, 1)
       IN  IF cands = <<>>
           THEN phase' = "settle" /\ UNCHANGED <<outcome, log>>
           ELSE /\ log' = Append(log, Entry("click", "span", arg, "",
                                           max_by_y(spans.items, cands)))
                /\ phase' = "settle"
                /\ UNCHANGED outcome
    /\ UNCHANGED <<findVars, parseVars, mainVars, objVars,
                   op, arg, pc, polls, swallowed, areaVars,
                   listVars>>

\* max([span for span in spans if span.text == area], key=...).click():
\* max of an empty list raises ValueError
ClickArea ==
    /\ outcome = "running" /\ phase = "click_area"
    /\ LET cands == matching_spans(spans.items, arg, 1)
       IN  IF cands = <<>>
           THEN outcome' = "ValueError" /\ UNCHANGED <<phase, log>>
           ELSE /\ log' = Append(log, Entry("click", "span", arg, "",
                                           max_by_y(spans.items, cands)))
                /\ phase' = "settle"
                /\ UNCHANGED outcome
    /\ UNCHANGED <<findVars, parseVars, mainVars, objVars,
                   op, arg, pc, polls, swallowed, areaVars,
                   listVars>>

\* time.sleep(delay)
Settle ==
    /\ outcome = "running" /\ phase = "settle"
    /\ log' = Append(log, Entry("sleep", "", "delay", "", 0))
    /\ phase' = "done"
    /\ outcome' = "returned"
    /\ UNCHANGED <<findVars, parseVars, mainVars, objVars,
                   op, arg, pc, polls, swallowed, areaVars,
                   listVars>>

-----------------------------------------------------------------------------
(* _get_cycles_data, get_individuals_data: the downloaded export *)

\* the browser finishes the download the click on "Excel" started
FileArrives ==
    /\ outcome = "running" /\ phase \in {"download", "download_sleep"}
    /\ download_path(op, arg) \notin download_dir.files
    /\ download_dir' = [download_dir EXCEPT !.files = @ \cup {download_path(op, arg)}]
    /\ UNCHANGED <<findVars, parseVars, mainVars, driver,
                   output_dir, opVars, areaVars, listVars>>

\* while not download_path.is_file(), the file not there: into the body of the
\* loop, which has no deadline and no count
DownloadMiss ==
    /\ outcome = "running" /\ phase = "download"
    /\ download_path(op, arg) \notin download_dir.files
    /\ phase' = "download_sleep"
    /\ UNCHANGED <<findVars, parseVars, mainVars, objVars,
                   op, arg, outcome, pc, polls, log, swallowed, areaVars, listVars>>

\* time.sleep(0.1), and back to the test of the loop
DownloadSleep ==
    /\ outcome = "running" /\ phase = "download_sleep"
    /\ phase' = "download"
    /\ UNCHANGED <<findVars, parseVars, mainVars, objVars,
                   op, arg, outcome, pc, polls, log, swallowed, areaVars, listVars>>

\* while not download_path.is_file(): the file is there, the loop ends
DownloadFound ==
    /\ outcome = "running" /\ phase = "download"
    /\ download_path(op, arg) \in download_dir.files
    /\ phase' = "read"
    /\ UNCHANGED <<findVars, parseVars, mainVars, objVars,
                   op, arg, outcome, pc, polls, log, swallowed,
                   areaVars, listVars>>

\* the export read and returned with the file left where it was downloaded
ReadExcelNoUnlink ==
    /\ outcome = "running" /\ phase = "read"
    /\ \E ok \in BOOLEAN :
          IF ok
          THEN /\ output_dir' =
                     IF op = "_get_cycles_data" /\ output_dir.given
                     THEN [output_dir EXCEPT
                             !.files = @ \cup {download_path(op, arg)}]
                     ELSE output_dir
               /\ outcome' = "returned"
               /\ phase' = "done"
               /\ UNCHANGED download_dir
          ELSE /\ outcome' = "ReadError"
               /\ UNCHANGED <<output_dir, download_dir, phase>>
    /\ UNCHANGED <<findVars, parseVars, mainVars, driver,
                   op, arg, pc, polls, log, swallowed, areaVars, listVars>>

\* pandas.read_excel, which may raise; then for the cycles data the copy into
\* output_dir when one was given; then download_path.unlink()
ReadExcel ==
    /\ outcome = "running" /\ phase = "read"
    /\ \E ok \in BOOLEAN :
          IF ok
          THEN /\ output_dir' =
                     IF op = "_get_cycles_data" /\ output_dir.given
                     THEN [output_dir EXCEPT
                             !.files = @ \cup {download_path(op, arg)}]
                     ELSE output_dir
               /\ download_dir' =
                     [download_dir EXCEPT !.files = @ \ {download_path(op, arg)}]
               /\ outcome' = "returned"
               /\ phase' = "done"
          ELSE /\ outcome' = "ReadError"
               /\ UNCHANGED <<output_dir, download_dir, phase>>
    /\ UNCHANGED <<findVars, parseVars, mainVars, driver,
                   op, arg, pc, polls, log, swallowed, areaVars,
                   listVars>>

-----------------------------------------------------------------------------
(* get_activities: the loop over the pages, _retrieve_activity for each link *)

\* most pages of a listing
MaxPages == 2

\* most anchors of a listing page
MaxAnchors == 2

Layouts == SeqsUpTo(AnchorNames, MaxAnchors)

\* the browser shows the listing chosen by the click on the category: some
\* number of pages, each with the same anchors
ShowListing ==
    /\ outcome = "running" /\ phase = "listing"
    /\ \E n \in 1..MaxPages, lay \in Layouts : pages' = n /\ layout' = lay
    /\ page' = 1
    /\ phase' = "links"
    /\ UNCHANGED <<findVars, parseVars, mainVars, objVars,
                   op, arg, outcome, pc, polls, log, swallowed,
                   areaVars, modal, links, li, cur, activities>>

\* the test of the marker inverted
next_page_test_inverted == page # pages

\* "k-state-disabled" in next_page_button.get_attribute("class"): the control
\* carries the marker while the last page is shown
next_disabled == page = pages

\* for link in self._get_activity_links(): the links of the page shown
GetLinks ==
    /\ outcome = "running" /\ phase = "links"
    /\ links' = get_activity_links(layout)
    /\ li' = 1
    /\ phase' = IF links' = <<>> THEN "next" ELSE "open"
    /\ UNCHANGED <<findVars, parseVars, mainVars, objVars,
                   op, arg, outcome, pc, polls, log, swallowed,
                   areaVars, pages, layout, page, modal, cur, activities>>

\* activity_link.click(); time.sleep(1): the browser opens the record's view
OpenRecord ==
    /\ outcome = "running" /\ phase = "open"
    /\ log' = log \o << Entry("click", "a", "activity_link", "", links[li]),
                       Entry("sleep", "", "1", "", 0) >>
    /\ modal' = modal \cup {<<page, links[li]>>}
    /\ phase' = "close_wait"
    /\ polls' = 0
    /\ UNCHANGED <<findVars, parseVars, mainVars, objVars,
                   op, arg, outcome, pc, swallowed, areaVars,
                   pages, layout, page, links, li, cur, activities>>

\* close_button = wait.until(find_element("span", text="U+00D7")): the glyph is
\* rendered by an open record view
CloseWaitFound ==
    /\ outcome = "running" /\ phase = "close_wait"
    /\ modal # {}
    /\ log' = Append(log, Entry("found", "span", "U+00D7", "", 0))
    /\ phase' = "parse"
    /\ polls' = 0
    /\ UNCHANGED <<findVars, parseVars, mainVars, objVars,
                   op, arg, outcome, pc, swallowed, areaVars,
                   listVars>>

CloseWaitMiss ==
    /\ outcome = "running" /\ phase = "close_wait"
    /\ polls < Deadline
    /\ polls' = polls + 1
    /\ UNCHANGED <<findVars, parseVars, mainVars, objVars,
                   op, arg, outcome, phase, pc, log, swallowed,
                   areaVars, listVars>>

CloseWaitTimeout ==
    /\ outcome = "running" /\ phase = "close_wait"
    /\ polls = Deadline
    /\ polls' = 0
    /\ outcome' = "Timeout"
    /\ UNCHANGED <<findVars, parseVars, mainVars, objVars,
                   op, arg, phase, pc, log, swallowed, areaVars,
                   listVars>>

\* the record whose view the page source shows
shown == CHOOSE r \in modal : TRUE

\* activity = self.parser.parse(self.driver.page_source), which may raise
Parse ==
    /\ outcome = "running" /\ phase = "parse"
    /\ \E ok \in BOOLEAN :
          IF ok
          THEN /\ cur' = << [rec |-> shown, title |-> layout[shown[2]]] >>
               /\ log' = Append(log, Entry("parse", "", "page_source", "", shown[2]))
               /\ phase' = "close"
               /\ UNCHANGED outcome
          ELSE /\ outcome' = "ParseError"
               /\ UNCHANGED <<cur, log, phase>>
    /\ UNCHANGED <<findVars, parseVars, mainVars, objVars,
                   op, arg, pc, polls, swallowed, areaVars,
                   pages, layout, page, modal, links, li, activities>>

\* the open views after close_button.click()
close_click(m) == m \ {shown}

\* _retrieve_activity that returns without the click on the close button
CloseRecordNoClick ==
    /\ outcome = "running" /\ phase = "close"
    /\ activities' = activities \o cur
    /\ cur' = <<>>
    /\ li' = li + 1
    /\ phase' = IF li < Len(links) THEN "open" ELSE "next"
    /\ UNCHANGED <<findVars, parseVars, mainVars, objVars,
                   op, arg, outcome, pc, polls, swallowed,
                   areaVars, pages, layout, page, links, log, modal>>

\* close_button.click(); return activity; activities.append(...)
CloseRecord ==
    /\ outcome = "running" /\ phase = "close"
    /\ log' = Append(log, Entry("click", "span", "U+00D7", "", 0))
    /\ modal' = close_click(modal)
    /\ activities' = activities \o cur
    /\ cur' = <<>>
    /\ li' = li + 1
    /\ phase' = IF li < Len(links) THEN "open" ELSE "next"
    /\ UNCHANGED <<findVars, parseVars, mainVars, objVars,
                   op, arg, outcome, pc, polls, swallowed,
                   areaVars, pages, layout, page, links>>

\* the marker is there: break; return activities
LastPage ==
    /\ outcome = "running" /\ phase = "next"
    /\ next_disabled
    /\ outcome' = "returned"
    /\ phase' = "done"
    /\ UNCHANGED <<findVars, parseVars, mainVars, objVars,
                   op, arg, pc, polls, log, swallowed, areaVars,
                   listVars>>

\* next_page_button.click(); time.sleep(1): the browser shows the next page
NextPage ==
    /\ outcome = "running" /\ phase = "next"
    /\ ~next_disabled
    /\ log' = log \o << Entry("click", "a", "Next page", "", 0),
                       Entry("sleep", "", "1", "", 0) >>
    /\ page' = IF page < pages THEN page + 1 ELSE page
    /\ phase' = "links"
    /\ UNCHANGED <<findVars, parseVars, mainVars, objVars,
                   op, arg, outcome, pc, polls, swallowed,
                   areaVars, pages, layout, modal, links, li, cur, activities>>

\* what the caller of get_activities has of its Activities: the list is a
\* local of get_activities and reaches the caller through `return activities`
delivered ==
    IF op = "get_activities" /\ outcome = "returned" THEN activities ELSE <<>>

-----------------------------------------------------------------------------
(* The specification of the SRPO object *)

Init == FindQuiet /\ NavInit /\ ParseQuiet /\ MainQuiet

Next ==
    \/ Call_login
    \/ Call_set_area
    \/ Call_get_cycles_data
    \/ Call_get_individuals_data
    \/ Call_get_activities
    \/ AssertFails
    \/ StepWaitFound
    \/ StepWaitMiss
    \/ StepWaitTimeout
    \/ StepSleep
    \/ StepAct
    \/ TreePoll
    \/ ClickArea
    \/ Settle
    \/ FileArrives
    \/ DownloadMiss
    \/ DownloadSleep
    \/ DownloadFound
    \/ ReadExcel
    \/ ShowListing
    \/ GetLinks
    \/ OpenRecord
    \/ CloseWaitFound
    \/ CloseWaitMiss
    \/ CloseWaitTimeout
    \/ Parse
    \/ CloseRecord
    \/ LastPage
    \/ NextPage

Spec == Init /\ [][Next]_vars

\* the statements of an operation under way: the interpreter runs the next one;
\* the calls are the caller's to make and the download is the browser's
Running ==
    \/ AssertFails \/ StepWaitFound \/ StepWaitMiss \/ StepWaitTimeout
    \/ StepSleep \/ StepAct \/ TreePoll \/ ClickArea \/ Settle
    \/ DownloadMiss \/ DownloadSleep \/ DownloadFound \/ ReadExcel
    \/ ShowListing \/ GetLinks \/ OpenRecord
    \/ CloseWaitFound \/ CloseWaitMiss \/ CloseWaitTimeout
    \/ Parse \/ CloseRecord \/ LastPage \/ NextPage

SpecFair == Spec /\ WF_vars(Running)

-----------------------------------------------------------------------------
(* cleanup *)

\* self.download_dir.cleanup(); self.driver.quit(): the second statement is a
\* call on None when login never started a browser
Do_cleanup ==
    /\ download_dir' = [exists |-> FALSE, files |-> {}]
    /\ IF driver = "None"
       THEN outcome' = "AttributeError" /\ UNCHANGED driver
       ELSE outcome' = "returned" /\ driver' = "quit"
    /\ op' = "cleanup" /\ arg' = "" /\ phase' = "done"
    /\ UNCHANGED <<findVars, parseVars, output_dir, pc, polls, log, swallowed,
                   areaVars, listVars>>

\* a caller may call cleanup whenever no operation is under way, also after
\* one has raised
Call_cleanup ==
    /\ outcome # "running" /\ op # "cleanup"
    /\ Do_cleanup
    /\ UNCHANGED mainVars

NextCleanup == Next \/ Call_cleanup

\* what follows a token in the accessible name of an anchor: the separator and
\* a locality, a further digit before them, or a locality with no separator
NameSuffixes ==
    { <<",", " ", "S", "o", "o", "k", "e">>,
      <<"0", ",", " ", "S", "o", "o", "k", "e">>,
      <<" ", "S", "o", "o", "k", "e">> }

\* how the listing writes a book: "Book x" for books 1 to 14, and
\* "Book x (Uy)" for the units of books 8 to 14
BookLabels ==
    { str_Book \o decimal(x) : x \in 1..14 }
        \cup { str_Book \o decimal(x) \o <<" ", "(", "U">> \o decimal(y) \o <<")">> :
                 x \in 8..14, y \in 1..3 }

\* accessible names of anchors: each grade, book and text, written with and
\* without the separator after it, and the names of AnchorNames
ListingNames ==
    { t \o x : t \in Range(childrens_class_grades) \cup Range(junior_youth_texts)
                       \cup BookLabels,
                x \in NameSuffixes }
        \cup AnchorNames

\* pages of one anchor, or of two of which one is drawn from AnchorNames
ListingLayouts ==
    { <<n>> : n \in ListingNames }
        \cup { <<n, m>> : n \in ListingNames, m \in AnchorNames }
        \cup { <<m, n>> : n \in ListingNames, m \in AnchorNames }

\* the browser shows a page of the listing; no operation is under way
InitLinks ==
    /\ FindQuiet /\ ParseQuiet /\ MainQuiet
    /\ driver = "open"
    /\ output_dir = [given |-> FALSE, files |-> {}]
    /\ download_dir = [exists |-> TRUE, files |-> {}]
    /\ op = "none" /\ arg = "" /\ outcome = "idle" /\ phase = "done"
    /\ pc = 1 /\ polls = 0 /\ log = <<>> /\ swallowed = {}
    /\ tries = 0 /\ spans = NoSpans
    /\ pages = 1 /\ layout \in ListingLayouts /\ page = 1 /\ modal = {}
    /\ links = <<>> /\ li = 0 /\ cur = <<>> /\ activities = <<>>

\* self._get_activity_links() on the page shown
Call_get_activity_links ==
    /\ outcome = "idle" /\ li = 0
    /\ links' = get_activity_links(layout)
    /\ li' = 1
    /\ UNCHANGED <<findVars, parseVars, mainVars, objVars,
                   opVars, areaVars, pages, layout, page, modal, cur, activities>>

NextLinks == Call_get_activity_links

SpecLinks == InitLinks /\ [][NextLinks]_vars

SpecCleanup == Init /\ [][NextCleanup]_vars

-----------------------------------------------------------------------------
(* The command-line callers: update_sheets.py and gen_pdfs.py *)

\* the scripts, with the --type of update_sheets and the --activity-type of
\* gen_pdfs
Progs ==
    [script : {"update_sheets"}, type : {"latestcycles", "allcycles", "individuals"}]
    \cup [script : {"gen_pdfs"}, type : {"all", "cc", "jy", "sc"}]

\* gen_pdfs: the argument of get_activities for each args.activity_type; the
\* source writes the label of "cc" with the three characters U+00E2 U+20AC
\* U+2122 where valid_activities has the apostrophe U+2019
gen_pdfs_label(type) ==
    CASE type = "all" -> "All Activities"
      [] type = "cc" -> "ChildrenU+00E2U+20ACU+2122s Classes"
      [] type = "jy" -> "Junior Youth Groups"
      [] type = "sc" -> "Study Circles"

\* the positions at which a script has ended: sys exit with status 1, an
\* exception nobody caught, the end of the file
Ended == {"exit(1)", "raised", "end"}

\* both scripts: srpo = SRPO(args.secret, None), then the main block
InitMain ==
    /\ FindQuiet /\ NavQuiet /\ ParseQuiet
    /\ prog \in Progs
    /\ main_pc = "login"
    /\ sheet = <<>>

\* srpo.login(args.username, args.password)
Main_login ==
    /\ main_pc = "login"
    /\ Enter_login
    /\ main_pc' = "set_area"
    /\ UNCHANGED <<prog, sheet>>

\* srpo.set_area(get_area_string(args.area)); srpo.set_area(area)
Main_set_area ==
    /\ main_pc = "set_area" /\ outcome = "returned"
    /\ Enter_set_area
    /\ main_pc' = "data"
    /\ UNCHANGED <<prog, sheet>>

\* update_sheets: data = srpo.get_latest_cycles() / get_all_cycles() /
\* get_individuals_data(), by args.type
Main_get_data ==
    /\ main_pc = "data" /\ outcome = "returned"
    /\ prog.script = "update_sheets"
    /\ CASE prog.type = "latestcycles" -> Enter_get_cycles_data("Latest")
         [] prog.type = "allcycles" -> Enter_get_cycles_data("All")
         [] prog.type = "individuals" -> Enter_get_individuals_data
    /\ main_pc' = "validate"
    /\ UNCHANGED <<prog, sheet>>

\* what the header check of update_sheets can give: sheet.has_cgp_data()
\* returns a bool or raises an error of the sheets API; class Sheet has no
\* has_individual_data, so that call raises AttributeError
validations(type) ==
    IF type = "individuals" THEN {"raises"} ELSE {"true", "false", "raises"}

\* what a header check leaves at the Sheet object: has_cgp_data sends one get
\* request and returns a bool, or the request raises; has_individual_data
\* raises AttributeError before any request
validation_trace(type, v) ==
    CASE v = "true" -> <<"get", "True">>
      [] v = "false" -> <<"get", "False">>
      [] v = "raises" /\ type = "individuals" -> <<"AttributeError">>
      [] v = "raises" /\ type # "individuals" -> <<"get", "HttpError">>

\* update_sheets without the exit after a failed header check
Main_validate_no_exit ==
    /\ main_pc = "validate" /\ outcome = "returned"
    /\ \E v \in validations(prog.type) :
          /\ main_pc' = CASE v = "true" -> "cleanup"
                          [] v = "false" -> "cleanup"
                          [] v = "raises" -> "raised"
          /\ sheet' = sheet \o validation_trace(prog.type, v)
    /\ UNCHANGED <<findVars, navVars, parseVars, prog>>

\* update_sheets: if not sheet.has_...(): print(...); exit(1)
Main_validate ==
    /\ main_pc = "validate" /\ outcome = "returned"
    /\ \E v \in validations(prog.type) :
          /\ main_pc' = CASE v = "true" -> "cleanup"
                          [] v = "false" -> "exit(1)"
                          [] v = "raises" -> "raised"
          /\ sheet' = sheet \o validation_trace(prog.type, v)
    /\ UNCHANGED <<findVars, navVars, parseVars, prog>>

\* update_sheets: srpo.cleanup()
Main_cleanup ==
    /\ main_pc = "cleanup"
    /\ Do_cleanup
    /\ main_pc' = "update"
    /\ UNCHANGED <<prog, sheet>>

\* Sheet.update: the credentials are loaded, then the clear request is sent,
\* then the update request; each of the three may raise
update_traces ==
    { [sent |-> <<>>, then |-> "raised"],
      [sent |-> <<"clear">>, then |-> "raised"],
      [sent |-> <<"clear", "update">>, then |-> "raised"],
      [sent |-> <<"clear", "update">>, then |-> "end"] }

\* update_sheets: sheet.update(data, cell_range), which may raise; the script
\* ends
Main_update ==
    /\ main_pc = "update"
    /\ \E t \in update_traces : sheet' = sheet \o t.sent /\ main_pc' = t.then
    /\ UNCHANGED <<findVars, navVars, parseVars, prog>>

\* gen_pdfs: srpo.set_activity_cb(PDFGen.activity_cb); class SRPO has no such
\* attribute, so the statement raises AttributeError and the calls of
\* get_activities after it are never reached
Main_set_activity_cb ==
    /\ main_pc = "data" /\ outcome = "returned"
    /\ prog.script = "gen_pdfs"
    /\ main_pc' = "raised"
    /\ UNCHANGED <<findVars, navVars, parseVars, prog, sheet>>

\* an exception of an SRPO operation: neither script has a try statement, so
\* it ends the script
Main_raise ==
    /\ main_pc \notin Ended
    /\ outcome \notin {"idle", "running", "returned"}
    /\ main_pc' = "raised"
    /\ UNCHANGED <<findVars, navVars, parseVars, prog, sheet>>

NextMain ==
    \/ Main_login
    \/ Main_set_area
    \/ Main_get_data
    \/ Main_validate
    \/ Main_cleanup
    \/ Main_update
    \/ Main_set_activity_cb
    \/ Main_raise
    \/ StepWaitFound
    \/ StepWaitMiss
    \/ StepWaitTimeout
    \/ StepSleep
    \/ StepAct
    \/ TreePoll
    \/ ClickArea
    \/ Settle
    \/ FileArrives
    \/ DownloadMiss
    \/ DownloadSleep
    \/ DownloadFound
    \/ ReadExcel

SpecMain == InitMain /\ [][NextMain]_vars

-----------------------------------------------------------------------------
(* activity_parser.py: ActivityParser.parse and _parse_person_table *)

(* The page source is given by the tags parse looks for, each list in        *)
(* document order: the tbody tags bound to "foreach: facilitators" and to    *)
(* "foreach: participants" (a table is its rows, a row its cells, a cell its *)
(* class list and the text of its button or span), the texts of the h1 tags  *)
(* of class app-screen-title, the location fields (whether params refers to  *)
(* subdivisionName, and the texts of the p tags inside), the date fields     *)
(* (whether params refers to displayStartDate, and the text of the first p), *)
(* and the texts of the p tags bound to hasServiceProjectsText.  A value     *)
(* that may be None is a sequence of at most one element.                    *)

RECURSIVE split_from(_, _, _, _)
\* str.split(sep) from position i on, the current part having begun at start
split_from(s, sep, i, start) ==
    IF i + Len(sep) - 1 > Len(s) THEN << SubSeq(s, start, Len(s)) >>
    ELSE IF SubSeq(s, i, i + Len(sep) - 1) = sep
         THEN << SubSeq(s, start, i - 1) >>
                  \o split_from(s, sep, i + Len(sep), i + Len(sep))
         ELSE split_from(s, sep, i + 1, start)

\* str.split(sep, 1): the text is cut at the first separator only
split_first_only(s, sep) ==
    LET hits == {i \in 1..(Len(s) - Len(sep) + 1) : SubSeq(s, i, i + Len(sep) - 1) = sep}
    IN  IF hits = {} THEN << s >>
        ELSE LET i == CHOOSE h \in hits : \A g \in hits : h <= g
             IN  << SubSeq(s, 1, i - 1), SubSeq(s, i + Len(sep), Len(s)) >>

split(s, sep) == split_from(s, sep, 1, 1)

Person(name, locality, isCurrent, isBahai) ==
    [name |-> name, locality |-> locality, isCurrent |-> isCurrent, isBahai |-> isBahai]

\* the if/elif chain over the class list of a cell: what the cell sets among
\* the locals name, isBahai, locality and current
cell_sets(st, cell) ==
    CASE "basicIsCurrentCol" \in cell.cls \/ "participantsIsCurrentCol" \in cell.cls ->
             [st EXCEPT !.current = << cell.val = "checked" >>]
      [] "basicNameCol" \in cell.cls \/ "participantsNameCol" \in cell.cls ->
             [st EXCEPT !.name = << cell.val >>]
      [] "participantsIsRegisteredBahaiCol" \in cell.cls ->
             [st EXCEPT !.isBahai = << cell.val = "Yes" >>]
      [] "basicLocalityCol" \in cell.cls \/ "participantsLocalityCol" \in cell.cls ->
             [st EXCEPT !.locality = << cell.val >>]
      [] OTHER -> st

RECURSIVE cells_from(_, _, _)
\* for cell in row.find_all("td"), from cell j on
cells_from(cells, j, st) ==
    IF j > Len(cells) THEN st
    ELSE cells_from(cells, j + 1, cell_sets(st, cells[j]))

RECURSIVE rows_from(_, _, _, _)
\* for row in table.find_all("tr"), from row i on.  name and isBahai are set to
\* None at each row; locality and current are assigned only by a cell, so they
\* keep the value of an earlier row, and reading one that was never assigned
\* raises UnboundLocalError
rows_from(rows, i, st, people) ==
    IF i > Len(rows) THEN [exc |-> "", people |-> people]
    ELSE LET after == cells_from(rows[i], 1,
                                 [st EXCEPT !.name = <<>>, !.isBahai = <<>>])
         IN  IF after.locality = <<>> \/ after.current = <<>>
             THEN [exc |-> "UnboundLocalError", people |-> <<>>]
             ELSE rows_from(rows, i + 1, after,
                            Append(people, Person(after.name, after.locality[1],
                                                  after.current[1], after.isBahai)))

\* _parse_person_table(table)
parse_person_table(table) ==
    rows_from(table, 1,
              [name |-> <<>>, isBahai |-> <<>>, locality |-> <<>>, current |-> <<>>],
              <<>>)

\* parse with no except clause around the unpacking of the table
person_table_required(tabs) ==
    IF Len(tabs) = 1 THEN parse_person_table(tabs[1])
    ELSE [exc |-> "ValueError", people |-> <<>>]

\* try: [table] = [t for t in tables if ...]; people = _parse_person_table(table)
\* except ValueError: people = []  -- the unpacking raises ValueError unless
\* there is exactly one such table
person_table_or_empty(tabs) ==
    IF Len(tabs) = 1 THEN parse_person_table(tabs[1])
    ELSE [exc |-> "", people |-> <<>>]

RECURSIVE locations_from(_, _, _)
\* for loc in soup.find_all("native-ui-location-field"), from field i on:
\* [nbhd_tag] = loc.find_all("p") raises ValueError unless there is one p
locations_from(locs, i, neighbourhood) ==
    IF i > Len(locs) THEN [exc |-> "", val |-> neighbourhood]
    ELSE IF locs[i].subdivision
         THEN IF Len(locs[i].ps) # 1
              THEN [exc |-> "ValueError", val |-> <<>>]
              ELSE locations_from(locs, i + 1, << locs[i].ps[1] >>)
         ELSE locations_from(locs, i + 1, neighbourhood)

RECURSIVE dates_from(_, _)
\* for date_field in soup.find_all("native-ui-date-field"), from field i on:
\* the first field that refers to displayStartDate, then break
dates_from(dates, i) ==
    IF i > Len(dates) THEN <<>>
    ELSE IF dates[i].start THEN << dates[i].text >>
    ELSE dates_from(dates, i + 1)

\* for p in soup.find_all("p") with the hasServiceProjectsText binding: the
\* last one decides; None when there is none
service_projects(texts) ==
    IF texts = <<>> THEN <<>> ELSE << texts[Len(texts)] = "Yes" >>

Raise(e) == [done |-> TRUE, exc |-> e, activity |-> <<>>]

Return(a) == [done |-> TRUE, exc |-> "", activity |-> << a >>]

\* ActivityParser.parse(page_source)
parse(m) ==
    LET f == person_table_or_empty(m.f_tables)
        p == person_table_or_empty(m.p_tables)
        loc == locations_from(m.locations, 1, <<>>)
        start_date == dates_from(m.dates, 1)
    IN  IF f.exc # "" THEN Raise(f.exc)
        ELSE IF p.exc # "" THEN Raise(p.exc)
        ELSE IF Len(m.titles) # 1 THEN Raise("ValueError")
        ELSE IF Len(split(m.titles[1], <<",", " ">>)) # 2 THEN Raise("ValueError")
        ELSE IF loc.exc # "" THEN Raise(loc.exc)
        ELSE IF loc.val = <<>> \/ start_date = <<>> THEN Raise("UnboundLocalError")
        ELSE LET name == split(m.titles[1], <<",", " ">>)
             IN  Return([locality |-> name[2],
                         neighbourhood |-> loc.val[1],
                         start_date |-> start_date[1],
                         stage |-> name[1],
                         facilitators |-> f.people,
                         participants |-> p.people,
                         doing_service_projects |-> service_projects(m.service)])

\* most rows of a table
MaxRows == 2

\* most tables with the same binding
MaxTables == 2

Cell(cls, val) == [cls |-> {cls}, val |-> val]

\* rows of a participants table: two complete ones, one without a name cell,
\* one with only a name and the registered flag
ParticipantRows ==
    { << Cell("participantsNameCol", "Ann"), Cell("participantsLocalityCol", "Sooke"),
         Cell("participantsIsCurrentCol", "checked"),
         Cell("participantsIsRegisteredBahaiCol", "Yes") >>,
      << Cell("participantsNameCol", "Bob"), Cell("participantsLocalityCol", "Colwood"),
         Cell("participantsIsCurrentCol", ""),
         Cell("participantsIsRegisteredBahaiCol", "No") >>,
      << Cell("participantsLocalityCol", "Langford"),
         Cell("participantsIsCurrentCol", "checked"),
         Cell("participantsIsRegisteredBahaiCol", "No") >>,
      << Cell("participantsNameCol", "Cy"),
         Cell("participantsIsRegisteredBahaiCol", "Yes") >> }

\* rows of a facilitators table: a complete one, and one without a name cell
FacilitatorRows ==
    { << Cell("basicNameCol", "Dee"), Cell("basicLocalityCol", "Sooke"),
         Cell("basicIsCurrentCol", "checked") >>,
      << Cell("basicLocalityCol", "Colwood"), Cell("basicIsCurrentCol", "") >> }

\* no table, or the same table up to MaxTables times
TableLists(T) == {[i \in 1..n |-> t] : n \in 0..MaxTables, t \in T}

Titles ==
    { \* "Grade 2, Sooke"
      <<"G", "r", "a", "d", "e", " ", "2", ",", " ", "S", "o", "o", "k", "e">>,
      \* "Grade 2"
      <<"G", "r", "a", "d", "e", " ", "2">>,
      \* "Book 1, Sooke, East"
      <<"B", "o", "o", "k", " ", "1", ",", " ", "S", "o", "o", "k", "e", ",", " ", "E", "a", "s", "t">>,
      \* "Spirit of Faith, Colwood"
      <<"S", "p", "i", "r", "i", "t", " ", "o", "f", " ", "F", "a", "i", "t", "h", ",", " ", "C", "o", "l", "w", "o", "o", "d">>,
      \* "Picnic, Sooke"
      <<"P", "i", "c", "n", "i", "c", ",", " ", "S", "o", "o", "k", "e">> }

GoodTitle == <<"G", "r", "a", "d", "e", " ", "2", ",", " ", "S", "o", "o", "k", "e">>

Subdivision(ps) == [subdivision |-> TRUE, ps |-> ps]

StartDate(text) == [start |-> TRUE, text |-> text]

\* records that differ in their tables of persons
TableMarkups ==
    [f_tables : TableLists(SeqsUpTo(FacilitatorRows, MaxRows)),
     p_tables : TableLists(SeqsUpTo(ParticipantRows, MaxRows)),
     titles : { << GoodTitle >> },
     locations : { << Subdivision(<<"Downtown">>) >> },
     dates : { << StartDate("2022-01-15") >> },
     service : { <<>> }]

\* records that differ in which of the tags are there, and how often
ShapeMarkups ==
    [f_tables : TableLists({<<>>, << CHOOSE r \in FacilitatorRows : Len(r) = 3 >>}),
     p_tables : TableLists({<<>>, << CHOOSE r \in ParticipantRows : r[1].val = "Ann" >>}),
     titles : SeqsUpTo(Titles, 2),
     locations : { <<>>, << Subdivision(<<"Downtown">>) >>, << Subdivision(<<>>) >>,
                   << [subdivision |-> FALSE, ps |-> <<"Sooke">>],
                      Subdivision(<<"Downtown">>) >> },
     dates : { <<>>, << StartDate("2022-01-15") >>,
               << [start |-> FALSE, text |-> "2023-06-30"], StartDate("2022-01-15") >> },
     service : { <<>>, <<"Yes">>, <<"No">> }]

-----------------------------------------------------------------------------
(* Activity: the derived type, the display label and the tables of the PDF   *)
(* (activity_parser.py).  The token lists are the class attributes of        *)
(* ActivityParser, which are built apart from those of SRPO.                 *)

\* [f"Grade {x}" for x in range(1, 7)]
ActivityParser_childrens_class_grades == [x \in 1..6 |-> str_Grade \o decimal(x)]

\* [f"Book {x}" for x in range(1, 8)]
\*   + [f"Book {x} (U{y})" for x in range(8, 15) for y in range(1, 4)]
ActivityParser_study_circle_books ==
    [x \in 1..7 |-> str_Book \o decimal(x)]
    \o [n \in 1..21 |->
          LET x == 8 + ((n - 1) \div 3)
              y == 1 + ((n - 1) % 3)
          IN  str_Book \o decimal(x) \o <<" ", "(", "U">> \o decimal(y) \o <<")">>]

ActivityParser_junior_youth_texts ==
    <<
      \* Breezes of Confirmation
      <<"B", "r", "e", "e", "z", "e", "s", " ", "o", "f", " ", "C", "o", "n", "f", "i", "r", "m", "a", "t", "i", "o", "n">>,
      \* Wellspring of Joy
      <<"W", "e", "l", "l", "s", "p", "r", "i", "n", "g", " ", "o", "f", " ", "J", "o", "y">>,
      \* Habits of an Orderly Mind
      <<"H", "a", "b", "i", "t", "s", " ", "o", "f", " ", "a", "n", " ", "O", "r", "d", "e", "r", "l", "y", " ", "M", "i", "n", "d">>,
      \* Glimmerings of Hope
      <<"G", "l", "i", "m", "m", "e", "r", "i", "n", "g", "s", " ", "o", "f", " ", "H", "o", "p", "e">>,
      \* Walking the Straight Path
      <<"W", "a", "l", "k", "i", "n", "g", " ", "t", "h", "e", " ", "S", "t", "r", "a", "i", "g", "h", "t", " ", "P", "a", "t", "h">>,
      \* Learning About Excellence
      <<"L", "e", "a", "r", "n", "i", "n", "g", " ", "A", "b", "o", "u", "t", " ", "E", "x", "c", "e", "l", "l", "e", "n", "c", "e">>,
      \* Thinking About Numbers
      <<"T", "h", "i", "n", "k", "i", "n", "g", " ", "A", "b", "o", "u", "t", " ", "N", "u", "m", "b", "e", "r", "s">>,
      \* Observation and Insight
      <<"O", "b", "s", "e", "r", "v", "a", "t", "i", "o", "n", " ", "a", "n", "d", " ", "I", "n", "s", "i", "g", "h", "t">>,
      \* The Human Temple
      <<"T", "h", "e", " ", "H", "u", "m", "a", "n", " ", "T", "e", "m", "p", "l", "e">>,
      \* Drawing on the Power of the Word
      <<"D", "r", "a", "w", "i", "n", "g", " ", "o", "n", " ", "t", "h", "e", " ", "P", "o", "w", "e", "r", " ", "o", "f", " ", "t", "h", "e", " ", "W", "o", "r", "d">>,
      \* Spirit of Faith
      <<"S", "p", "i", "r", "i", "t", " ", "o", "f", " ", "F", "a", "i", "t", "h">>,
      \* Power of the Holy Spirit
      <<"P", "o", "w", "e", "r", " ", "o", "f", " ", "t", "h", "e", " ", "H", "o", "l", "y", " ", "S", "p", "i", "r", "i", "t">>
    >>

\* "Study Circle"
str_Study_Circle ==
    <<"S", "t", "u", "d", "y", " ", "C", "i", "r", "c", "l", "e">>

\* "Junior Youth Group"
str_Junior_Youth_Group ==
    <<"J", "u", "n", "i", "o", "r", " ", "Y", "o", "u", "t", "h", " ", "G", "r", "o", "u", "p">>

\* "Children's Class"
str_Childrens_Class ==
    <<"C", "h", "i", "l", "d", "r", "e", "n", "'", "s", " ", "C", "l", "a", "s", "s">>

\* "Unknown Activity Type"
str_Unknown_Activity_Type ==
    <<"U", "n", "k", "n", "o", "w", "n", " ", "A", "c", "t", "i", "v", "i", "t", "y", " ", "T", "y", "p", "e">>

RECURSIVE stage_startswith(_, _, _)
\* for token in tokens: if self.stage.startswith(token): return ..., from
\* token j on: whether the loop returns
stage_startswith(stage, tokens, j) ==
    IF j > Len(tokens) THEN FALSE
    ELSE IF startswith(stage, tokens[j]) THEN TRUE
    ELSE stage_startswith(stage, tokens, j + 1)

\* _get_activity_type without the loop over the junior youth texts
get_activity_type_no_texts(a) ==
    IF stage_startswith(a.stage, ActivityParser_study_circle_books, 1)
    THEN str_Study_Circle
    ELSE IF stage_startswith(a.stage, ActivityParser_childrens_class_grades, 1)
    THEN str_Childrens_Class
    ELSE str_Unknown_Activity_Type

\* Activity._get_activity_type(): the books, then the texts, then the grades
get_activity_type(a) ==
    IF stage_startswith(a.stage, ActivityParser_study_circle_books, 1)
    THEN str_Study_Circle
    ELSE IF stage_startswith(a.stage, ActivityParser_junior_youth_texts, 1)
    THEN str_Junior_Youth_Group
    ELSE IF stage_startswith(a.stage, ActivityParser_childrens_class_grades, 1)
    THEN str_Childrens_Class
    ELSE str_Unknown_Activity_Type

\* __str__ that gives the locality before the stage
str_Activity_locality_first(a) ==
    get_activity_type(a) \o <<",", " ">> \o a.locality \o <<" ", "-", " ">> \o a.stage

\* Activity.__str__(): f"{self._get_activity_type()}, {self.stage} - {self.locality}"
str_Activity(a) ==
    get_activity_type(a) \o <<",", " ">> \o a.stage \o <<" ", "-", " ">> \o a.locality

RECURSIVE join_from(_, _, _)
\* sep.join(items) from item i on: the pieces of the text, in order; an item
\* that is None raises TypeError
join_from(sep, items, i) ==
    IF i > Len(items) THEN [exc |-> "", val |-> <<>>]
    ELSE IF items[i] = <<>> THEN [exc |-> "TypeError", val |-> <<>>]
    ELSE LET rest == join_from(sep, items, i + 1)
         IN  IF rest.exc # "" THEN rest
             ELSE [exc |-> "",
                   val |-> (IF i > 1 THEN <<sep>> ELSE <<>>) \o <<items[i][1]>> \o rest.val]

join(sep, items) == join_from(sep, items, 1)

\* the if/elif/else at the head of _generate_info_table: stage_type
stage_type(a) ==
    IF get_activity_type(a) = str_Childrens_Class THEN <<"G", "r", "a", "d", "e">>
    ELSE IF get_activity_type(a) = str_Junior_Youth_Group THEN <<"T", "e", "x", "t">>
    ELSE IF get_activity_type(a) = str_Study_Circle THEN <<"B", "o", "o", "k">>
    ELSE <<"U", "n", "k", "n", "o", "w", "n", " ", "s", "t", "a", "g", "e">>

\* the if/elif/else at the head of _generate_info_table: facilitator_type
facilitator_type(a) ==
    IF get_activity_type(a) = str_Childrens_Class THEN <<"T", "e", "a", "c", "h", "e", "r">>
    ELSE IF get_activity_type(a) = str_Junior_Youth_Group THEN <<"A", "n", "i", "m", "a", "t", "o", "r">>
    ELSE IF get_activity_type(a) = str_Study_Circle THEN <<"T", "u", "t", "o", "r">>
    ELSE <<"U", "n", "k", "n", "o", "w", "n", " ", "f", "a", "c", "i", "l", "i", "t", "a", "t", "o", "r", " ", "t", "y", "p", "e">>

\* Activity._generate_info_table(): the texts of the table, by what they
\* label; the row of the service projects is there for a junior youth group only
generate_info_table(a) ==
    LET names == join(", ", [i \in 1..Len(a.facilitators) |-> a.facilitators[i].name])
    IN  IF names.exc # "" THEN [exc |-> names.exc, table |-> <<>>]
        ELSE [exc |-> "",
              table |-> <<
                [stage_label |-> stage_type(a) \o <<":">>,
                 stage |-> a.stage,
                 start_date |-> a.start_date,
                 locality |-> a.locality,
                 neighbourhood |-> a.neighbourhood,
                 service_projects |->
                     IF get_activity_type(a) = str_Junior_Youth_Group
                     THEN << IF a.doing_service_projects = <<TRUE>> THEN "Yes" ELSE "No" >>
                     ELSE <<>>,
                 facilitator_label |->
                     facilitator_type(a)
                         \o (IF Len(a.facilitators) > 1 THEN <<"s">> ELSE <<>>) \o <<":">>,
                 facilitators |-> names.val] >>]

\* Activity._generate_participants_table(): the header and one row for each
\* participant; a study circle has no column for the currently-participating flag
generate_participants_table(a) ==
    LET has_current_col == get_activity_type(a) # str_Study_Circle
    IN  [colspan |-> IF has_current_col THEN 4 ELSE 3,
         header |-> <<"Name", "Locality">>
                      \o (IF has_current_col THEN <<"Currently Participating">> ELSE <<>>)
                      \o <<"Registered BahU+00E1'U+00ED">>,
         rows |-> [i \in 1..Len(a.participants) |->
                     [name |-> a.participants[i].name,
                      locality |-> a.participants[i].locality,
                      isCurrent |-> IF has_current_col
                                    THEN << a.participants[i].isCurrent >> ELSE <<>>,
                      isBahai |-> a.participants[i].isBahai]]]

\* Activity.generate_pdf(save_path), up to the document handed to the PDF
\* library: the title, the information table, the participants table
generate_pdf(a) ==
    LET info == generate_info_table(a)
    IN  IF info.exc # "" THEN [exc |-> info.exc, document |-> <<>>]
        ELSE [exc |-> "",
              document |-> <<
                [title |-> get_activity_type(a) \o <<" ", "I", "n", "f", "o", " ", "S", "h", "e", "e", "t">>,
                 info |-> info.table[1],
                 participants |-> generate_participants_table(a)] >>]

\* records that differ in their title and in the names of their facilitators
TitleMarkups ==
    [f_tables : { <<>> } \cup { << t >> : t \in SeqsUpTo(FacilitatorRows, MaxRows) },
     p_tables : { <<>>, << << CHOOSE r \in ParticipantRows : r[1].val = "Ann" >> >> },
     titles : { << t >> : t \in Titles },
     locations : { << Subdivision(<<"Downtown">>) >> },
     dates : { << StartDate("2022-01-15") >> },
     service : { <<>>, <<"Yes">> }]

InitParse ==
    /\ FindQuiet /\ NavQuiet /\ MainQuiet
    /\ markup \in TableMarkups \cup ShapeMarkups \cup TitleMarkups
    /\ result = NoResult /\ earlier = <<>>
    /\ subject = <<>> /\ doc = NoDoc

\* a parse that keeps the neighbourhood of the record before when the record
\* has none of its own
ParseRecord_carrying ==
    /\ ~result.done
    /\ result' = IF /\ parse(markup).exc = "UnboundLocalError"
                    /\ earlier # <<>>
                    /\ dates_from(markup.dates, 1) # <<>>
                 THEN parse([markup EXCEPT !.locations =
                                earlier[Len(earlier)].markup.locations])
                 ELSE parse(markup)
    /\ UNCHANGED <<findVars, navVars, mainVars, markup, earlier, subject, doc>>

\* activity = self.parser.parse(self.driver.page_source)
ParseRecord ==
    /\ ~result.done
    /\ result' = parse(markup)
    /\ UNCHANGED <<findVars, navVars, mainVars, markup, earlier, subject, doc>>

\* a: Activity, the argument of activity_cb: the Activity parse returned
activity_cb ==
    /\ result.done /\ result.exc = "" /\ subject = <<>>
    /\ subject' = result.activity
    /\ UNCHANGED <<findVars, navVars, mainVars, markup, result, earlier, doc>>

\* a._get_activity_type()
Call_get_activity_type ==
    /\ subject # <<>> /\ doc.kind = <<>>
    /\ doc' = [doc EXCEPT !.kind = << get_activity_type(subject[1]) >>]
    /\ UNCHANGED <<findVars, navVars, mainVars, markup, result, earlier, subject>>

\* str(a)
Call_str ==
    /\ subject # <<>> /\ doc.label = <<>>
    /\ doc' = [doc EXCEPT !.label = << str_Activity(subject[1]) >>]
    /\ UNCHANGED <<findVars, navVars, mainVars, markup, result, earlier, subject>>

\* a.generate_pdf(save_path)
Call_generate_pdf ==
    /\ subject # <<>> /\ doc.document = <<>> /\ doc.exc = ""
    /\ LET pdf == generate_pdf(subject[1])
       IN  doc' = [doc EXCEPT !.document = pdf.document, !.exc = pdf.exc]
    /\ UNCHANGED <<findVars, navVars, mainVars, markup, result, earlier, subject>>

NextParse ==
    \/ ParseRecord
    \/ activity_cb
    \/ Call_get_activity_type
    \/ Call_str
    \/ Call_generate_pdf

SpecParse == InitParse /\ [][NextParse]_vars

\* most records parsed one after the other
MaxRecords == 2

\* records that differ in their title, their location fields and their date
RecordMarkups ==
    [f_tables : { <<>> },
     p_tables : { <<>> },
     titles : { << GoodTitle >>, << CHOOSE t \in Titles : t[1] = "P" >> },
     locations : { <<>>, << Subdivision(<<"Downtown">>) >>, << Subdivision(<<"Uptown">>) >>,
                   << [subdivision |-> FALSE, ps |-> <<"Sooke">>] >> },
     dates : { <<>>, << StartDate("2022-01-15") >> },
     service : { <<>> }]

InitRecords ==
    /\ FindQuiet /\ NavQuiet /\ MainQuiet
    /\ markup \in RecordMarkups
    /\ result = NoResult /\ earlier = <<>>
    /\ subject = <<>> /\ doc = NoDoc

\* the loop of get_activities comes to its next link: the page source is that
\* of another record, and parse is called again on the same ActivityParser; an
\* exception of parse would have ended the loop
NextRecord ==
    /\ result.done /\ result.exc = ""
    /\ Len(earlier) + 1 < MaxRecords
    /\ earlier' = Append(earlier, [markup |-> markup, result |-> result])
    /\ markup' \in RecordMarkups
    /\ result' = NoResult
    /\ UNCHANGED <<findVars, navVars, mainVars, subject, doc>>

NextRecords ==
    \/ ParseRecord
    \/ NextRecord

SpecRecords == InitRecords /\ [][NextRecords]_vars

\* what is written after a token to make a stage: nothing, a further digit,
\* a further word
StageSuffixes == { <<>>, <<"0">>, <<" ", "x">> }

StageTokens ==
    Range(ActivityParser_childrens_class_grades)
        \cup Range(ActivityParser_study_circle_books)
        \cup Range(ActivityParser_junior_youth_texts)

\* the stages an Activity is built with: the empty one of the blank forms, each
\* token alone, followed by a suffix, and cut short by one character, and a few
\* that differ from a token in case or in leading space
Stages ==
    { t \o x : t \in StageTokens, x \in StageSuffixes }
        \cup { SubSeq(t, 1, Len(t) - 1) : t \in StageTokens }
        \cup { <<>>, <<"b", "o", "o", "k", " ", "1">>, <<" ", "G", "r", "a", "d", "e", " ", "1">>,
               <<"B", "o", "o", "k", " ", "8">>, <<"G", "r", "a", "d", "e", " ", "7">> }

\* the Activities the methods are called on: as parse builds them, with no
\* facilitator, one, or two of which one has no name
FormatActivities ==
    [locality : { <<"S", "o", "o", "k", "e">> },
     neighbourhood : { "Downtown" },
     start_date : { "2022-01-15" },
     stage : Stages,
     facilitators : { <<>>,
                      << Person(<<"Dee">>, "Sooke", TRUE, <<>>) >>,
                      << Person(<<"Dee">>, "Sooke", TRUE, <<>>),
                         Person(<<"Eve">>, "Colwood", FALSE, <<>>) >>,
                      << Person(<<"Dee">>, "Sooke", TRUE, <<>>),
                         Person(<<>>, "Colwood", FALSE, <<>>) >> },
     participants : { <<>>, << Person(<<"Ann">>, "Sooke", TRUE, <<TRUE>>) >> },
     doing_service_projects : { <<>>, <<TRUE>> }]

InitFormat ==
    /\ FindQuiet /\ NavQuiet /\ MainQuiet
    /\ markup = NoMarkup /\ result = NoResult /\ earlier = <<>>
    /\ subject \in { <<a>> : a \in FormatActivities }
    /\ doc = NoDoc

NextFormat ==
    \/ Call_get_activity_type
    \/ Call_str
    \/ Call_generate_pdf

SpecFormat == InitFormat /\ [][NextFormat]_vars

-----------------------------------------------------------------------------
(* C4, C5: the wait primitive *)

Min(S) == CHOOSE x \in S : \A y \in S : x <= y

Max(S) == CHOOSE x \in S : \A y \in S : x >= y

\* the accessible name with the non-ASCII characters removed and the
\* surrounding whitespace stripped, stated by positions
NormalizedName(e) ==
    LET a == SelectSeq(e.accessible_name, LAMBDA c : c \notin NonAscii)
        solid == {i \in 1..Len(a) : a[i] \notin Whitespace}
    IN  IF solid = {} THEN <<>> ELSE SubSeq(a, Min(solid), Max(solid))

\* every supplied criterion holds of e
Satisfies(f, e) ==
    /\ f.name.given => comparator(f.cmp, NormalizedName(e), f.name)
    /\ f.text.given => comparator(f.cmp, e.text, f.text)

Matching(f, els) == {i \in 1..Len(els) : Satisfies(f, els[i])}

\* C4: one poll returns the first element in enumeration order that satisfies
\* every supplied criterion, and the no-match value exactly when none does.
C4_FirstMatch ==
    fresh =>
        /\ (value = 0) <=> (Matching(fe, dom) = {})
        /\ value # 0 => value = Min(Matching(fe, dom))

\* a poll returned the second of two rendered elements: the first one failed a
\* criterion (here through its cleaned name), the second satisfied all of them
C4_Witness ==
    /\ fresh /\ value = 2 /\ fe.name.given /\ fe.text.given /\ fe.cmp = "eq"
    /\ dom[2].accessible_name # fe.name.val

\* C5: a wait ends by returning an element that satisfied the predicate at the
\* poll that returned it, or by Timeout once the deadline has passed with no
\* poll matching; no poll happens after the deadline.
C5_WaitOutcome ==
    /\ w_pc = "returned" =>
            /\ Len(returned) = 1 /\ Satisfies(fe, returned[1])
            /\ fresh => returned[1] = dom[value]
    /\ w_pc = "timeout" => returned = <<>> /\ value = 0 /\ clock = Deadline + 1
    /\ w_pc \in {"poll", "sleep"} => returned = <<>> /\ clock <= Deadline
    /\ w_pc \in {"poll", "sleep", "returned", "timeout"}

\* a wait that returned an element on a later poll, after earlier polls found none
C5_Witness == w_pc = "returned" /\ clock > 0 /\ Len(dom) = 2 /\ fresh

-----------------------------------------------------------------------------
(* C1, C2, C3: get_activities over a listing of pages *)

\* an accessible name that starts with at least one token
IsRecordName(name) == \E t \in Range(all_activity_prefixes) : startswith(name, t)

\* the positions of the record links of a page, and their number k
RecordPositions == {i \in 1..Len(layout) : IsRecordName(layout[i])}

RecordsPerPage == Cardinality(RecordPositions)

\* the n-th smallest element of a set of numbers
Nth(S, n) == CHOOSE x \in S : Cardinality({y \in S : y < x}) = n - 1

\* what an entry of the log is, for the loop of get_activities
EntryKind(e) ==
    CASE e.act = "click" /\ e.key = "activity_link" -> "open"
      [] e.act = "found" /\ e.key = "U+00D7" -> "glyph"
      [] e.act = "parse" -> "parse"
      [] e.act = "click" /\ e.key = "U+00D7" -> "close"
      [] e.act = "click" /\ e.key = "Next page" -> "next"
      [] OTHER -> "other"

CountKind(kind) == Cardinality({j \in 1..Len(log) : EntryKind(log[j]) = kind})

\* C1: for a listing of N pages with k record links each, whose next-page
\* control is disabled only on the last page, get_activities returns after
\* opening and extracting exactly N*k records and clicking the control exactly
\* N-1 times; its last interaction is the close click of the last record.
C1_Pagination ==
    (op = "get_activities" /\ outcome = "returned") =>
        LET total == pages * RecordsPerPage
        IN  /\ Len(activities) = total
            /\ CountKind("open") = total
            /\ CountKind("parse") = total
            /\ CountKind("close") = total
            /\ CountKind("next") = pages - 1
            /\ page = pages
            /\ total > 0 => EntryKind(log[Len(log)]) = "close"

\* get_activities returned from a listing of more than one page, each with
\* two record links
C1_Witness ==
    /\ op = "get_activities" /\ outcome = "returned"
    /\ pages = 2 /\ RecordsPerPage = 2 /\ Len(activities) = 4

\* the record the j-th Activity must come from, given the positions of the
\* record links of a page: page by page, and within a page in document order
ExpectedRecord(positions, j) ==
    LET k == Cardinality(positions)
    IN  << ((j - 1) \div k) + 1, Nth(positions, ((j - 1) % k) + 1) >>

\* C2: the Activities are ordered by page and, within a page, by document order
\* of the record links; the page shown never goes back and advances by exactly
\* one with each click on the next-page control.
C2_Order ==
    /\ [](op = "get_activities" =>
            LET positions == RecordPositions
            IN  /\ \A j \in 1..Len(activities) :
                      /\ activities[j].rec = ExpectedRecord(positions, j)
                      /\ activities[j].title = layout[activities[j].rec[2]]
                /\ page = 1 + CountKind("next"))
    /\ [][(op = "get_activities" /\ outcome = "running") =>
            \/ page' = page /\ CountKind("next")' = CountKind("next")
            \/ page' = page + 1 /\ CountKind("next")' = CountKind("next") + 1]_vars

\* on the second page, after the first of its two records has been returned
C2_Witness ==
    /\ op = "get_activities" /\ page = 2 /\ RecordsPerPage = 2
    /\ Len(activities) = 3 /\ Len(layout) = 2

\* the entries of the log that belong to the loop of get_activities
LoopLog == SelectSeq(log, LAMBDA e : EntryKind(e) # "other")

\* C3: at most one record view is open, and each record goes through
\* open-click, wait for the close glyph, extraction, close-click, in that
\* order; the next open-click or next-page click follows a close-click.
C3_Sequential ==
    op = "get_activities" =>
        LET L == LoopLog
            kinds == [j \in 1..Len(L) |-> EntryKind(L[j])]
        IN  /\ Cardinality(modal) <= 1
            /\ \A j \in 1..Len(L) :
                  LET kind == kinds[j]
                      prev == IF j = 1 THEN "none" ELSE kinds[j - 1]
                  IN  /\ kind = "open" => prev \in {"none", "close", "next"}
                      /\ kind = "glyph" => prev = "open"
                      /\ kind = "parse" => prev = "glyph" /\ L[j].idx = L[j - 2].idx
                      /\ kind = "close" => prev = "parse"
                      /\ kind = "next" => prev \in {"none", "close", "next"}
            /\ (modal # {}) <=>
                  (L # <<>> /\ kinds[Len(L)] \in {"open", "glyph", "parse"})

\* a second record is open, after the first one was closed
C3_Witness ==
    /\ op = "get_activities" /\ Len(activities) = 1 /\ phase = "parse"
    /\ Cardinality(modal) = 1

-----------------------------------------------------------------------------
(* C6, C7: what a Timeout does to an operation *)

\* the operations that catch nothing
FatalOps == {"login", "set_area", "_get_cycles_data", "get_activities"}

\* the log of an operation whose table has been performed up to step n:
\* every step once, in the order of the table
TableLog(n) == [i \in 1..n |-> StepEntry(Steps(op, arg)[i], i)]

\* C6: in login, set_area, _get_cycles_data and get_activities a Timeout ends
\* the operation at the wait that timed out: the steps before it were each
\* performed once and in order, nothing is performed afterwards, and the
\* Timeout is the outcome the caller sees.
C6_TimeoutAborts ==
    /\ [](op \in FatalOps =>
            /\ swallowed = {}
            /\ phase = "steps" =>
                  /\ pc \in 1..Len(Steps(op, arg))
                  /\ log = TableLog(pc - 1)
            /\ outcome = "Timeout" =>
                  \/ phase = "steps" /\ Steps(op, arg)[pc].kind = "wait"
                  \/ /\ op = "get_activities" /\ phase = "close_wait"
                     /\ EntryKind(log[Len(log) - 1]) = "open"
                     /\ cur = <<>>)
    /\ [][outcome # "Timeout"]_vars

\* login timed out waiting for the verification code field, after three steps
C6_Witness ==
    /\ op = "login" /\ outcome = "Timeout" /\ pc = 4 /\ Len(log) = 3

\* C7: in get_individuals_data a Timeout of the wait for the verification code
\* field is caught: no code is typed and the operation goes on to the
\* downloaded file; a Timeout of one of the three waits before it is fatal.
C7_OptionalPrompt ==
    /\ [](op = "get_individuals_data" =>
            /\ swallowed \cap {1, 2, 3} = {}
            /\ outcome = "Timeout" => pc # 4
            /\ 4 \in swallowed =>
                  /\ log = TableLog(3)
                  /\ \A j \in 1..Len(log) : log[j].act # "send_keys"
                  /\ phase \in {"download", "download_sleep", "read", "done"}
                  /\ outcome # "Timeout")
    /\ [][(/\ op = "get_individuals_data" /\ phase = "steps" /\ pc \in {1, 2, 3}
           /\ polls = Deadline /\ log' = log /\ polls' # polls)
          => outcome' = "Timeout"]_vars

\* the prompt never appeared, and the export was read all the same
C7_Witness ==
    /\ op = "get_individuals_data" /\ 4 \in swallowed /\ outcome = "returned"

-----------------------------------------------------------------------------
(* C8: login *)

\* the interactions of login, in the order they are to happen
ExpectedLogin ==
    << Entry("send_keys", "input", "Username", "username", 1),
       Entry("send_keys", "input", "Password", "password", 2),
       Entry("click", "button", "Login", "", 3),
       Entry("send_keys", "input", VerificationPrompt, "totp", 4),
       Entry("click", "button", "Continue", "", 5) >>

\* the elements of the page an authenticated session lands on: set_area,
\* which is to run on that page, starts by waiting for its scope button
LandingKeys == {"Canada"}

LoginInOrder ==
    op = "login" =>
        /\ Len(log) <= Len(ExpectedLogin)
        /\ log = SubSeq(ExpectedLogin, 1, Len(log))
        /\ phase = "steps" => Len(log) = pc - 1

\* C8 as stated: the steps of login happen in order, each after the wait for
\* its element, and login returns only after a wait has observed the landing
\* state.
C8_ReturnsAfterLanding ==
    /\ LoginInOrder
    /\ (op = "login" /\ outcome = "returned") =>
          \E j \in 1..Len(log) :
              log[j].act \in {"found", "click"} /\ log[j].key \in LandingKeys

\* C8, amended: the steps of login happen in order, each after the wait for
\* its element, and login returns right after the click on Continue, without a
\* wait on the landing page.
C8_LoginOrder ==
    /\ LoginInOrder
    /\ op = "login" =>
          /\ (outcome = "returned") <=> (log = ExpectedLogin)
          /\ \A j \in 1..Len(log) : log[j].key \notin LandingKeys

C8_Witness == op = "login" /\ outcome = "returned" /\ Len(log) = 5

-----------------------------------------------------------------------------
(* C9, C10: set_area *)

AreaClicks == {j \in 1..Len(log) : log[j].act = "click" /\ log[j].tag = "span"}

\* C9: set_area clicks one span: among the spans of the last poll whose text
\* is the area label, one of largest vertical offset, whatever their order;
\* never a span with another text.
C9_AreaClick ==
    op = "set_area" =>
        /\ Cardinality(AreaClicks) <= 1
        /\ outcome = "returned" => Cardinality(AreaClicks) = 1
        /\ \A j \in AreaClicks :
              LET c == log[j].idx
              IN  /\ c \in 1..Len(spans.items)
                  /\ spans.items[c].text = arg
                  /\ \A i \in 1..Len(spans.items) :
                        spans.items[i].text = arg =>
                            spans.items[i].y <= spans.items[c].y

\* two spans carry the label, the lower one is enumerated second, and it is
\* the one clicked
C9_Witness ==
    /\ op = "set_area" /\ AreaClicks # {} /\ Len(spans.items) = 2
    /\ spans.items[1].text = arg /\ spans.items[2].text = arg
    /\ spans.items[1].y < spans.items[2].y
    /\ \A j \in AreaClicks : log[j].idx = 2

\* C10 as stated: the area label is clicked only when the last poll saw more
\* spans than the threshold; at or below it set_area polls on and does not
\* click.
C10_ClickOnlyAboveThreshold ==
    (op = "set_area" /\ AreaClicks # {}) => spans.count > SpanThreshold

-----------------------------------------------------------------------------
(* C11, C12, C13: get_activities and its caller *)

FourLabels ==
    {"All Activities", "ChildrenU+2019s Classes", "Junior Youth Groups", "Study Circles"}

\* the three clicks that open the listing of a category
ExpectedOpening(label) ==
    << Entry("click", "a", "Activities", "", 1),
       Entry("click", "button", "valid_activities", "", 2),
       Entry("click", "a", label, "", 3) >>

\* C11: get_activities called with a label outside the four fixed ones fails
\* on its assertion with no wait and no interaction done; called with one of
\* the four it never fails on the assertion and clicks the Activities link, the
\* category button and the anchor of the label, in this order, before a page
\* is read.
C11_LabelGate ==
    op = "get_activities" =>
        /\ arg \notin FourLabels =>
              /\ log = <<>> /\ polls = 0 /\ phase = "steps" /\ pc = 1
              /\ outcome \in {"running", "AssertionError"}
        /\ arg \in FourLabels =>
              /\ outcome # "AssertionError"
              /\ SubSeq(log, 1, Min({3, Len(log)}))
                    = SubSeq(ExpectedOpening(arg), 1, Min({3, Len(log)}))
              /\ phase # "steps" => Len(log) >= 3
              /\ \A j \in 1..Len(log) : EntryKind(log[j]) # "other" => j > 3

\* the label with a plain apostrophe was refused
C11_Witness ==
    op = "get_activities" /\ arg = "Children's Classes" /\ outcome = "AssertionError"

\* C12 as stated: the consumer has every Activity as soon as its record is
\* closed, so at any moment, and after a failure, it has received exactly the
\* Activities of the records completed so far.
C12_DeliveredAsCompleted == op = "get_activities" => delivered = activities

\* C13 as stated: when the extraction of a record fails, the Activities of the
\* earlier records are still available to the caller.
C13_PriorResultsKept ==
    (op = "get_activities" /\ outcome \in {"ParseError", "Timeout"}) =>
        \A j \in 1..Len(activities) :
            j <= Len(delivered) /\ delivered[j] = activities[j]

-----------------------------------------------------------------------------
(* C14: cleanup *)

\* C14 as stated: after cleanup, whatever the state it was called in, the
\* temporary download directory is deleted, no browser session is left
\* running, and cleanup has not failed.
C14_CleanupReleases ==
    op = "cleanup" =>
        /\ ~download_dir.exists
        /\ driver # "open"
        /\ outcome = "returned"

-----------------------------------------------------------------------------
(* C16, C17: the exports *)

\* C16 as stated: every operation that is under way ends, by returning or by
\* failing, whatever the browser and the file system do.
C16_OperationsEnd == (outcome = "running") ~> (outcome # "running")

ExportOps == {"_get_cycles_data", "get_individuals_data"}

ExportNames == {"Latest Cycles.xlsx", "All Cycles.xlsx", "All Individuals.xlsx"}

\* the name of the file an export operation downloads
ExportName ==
    CASE op = "_get_cycles_data" /\ arg = "Latest" -> "Latest Cycles.xlsx"
      [] op = "_get_cycles_data" /\ arg = "All" -> "All Cycles.xlsx"
      [] OTHER -> "All Individuals.xlsx"

\* C17 as stated: once an export operation has returned, or has failed while
\* the file was parsed, the file is neither in the temporary download
\* directory nor anywhere else.
C17_NoExportRemains ==
    (op \in ExportOps /\ outcome \in {"returned", "ReadError"}) =>
        /\ ExportName \notin download_dir.files
        /\ ExportName \notin output_dir.files

\* C17, amended: once an export operation has returned, the file is no longer
\* in the temporary download directory, and a copy of it is in the output
\* directory exactly when the operation is _get_cycles_data and an output
\* directory was given; when the operation fails while the file is parsed, the
\* file is still in the temporary download directory.
C17_ExportRemoved ==
    /\ download_dir.files \subseteq ExportNames
    /\ output_dir.files \subseteq {"Latest Cycles.xlsx", "All Cycles.xlsx"}
    /\ ~output_dir.given => output_dir.files = {}
    /\ (op \in ExportOps /\ outcome = "returned") =>
          /\ ExportName \notin download_dir.files
          /\ (op = "_get_cycles_data" /\ output_dir.given) =>
                ExportName \in output_dir.files
    /\ (op \in ExportOps /\ outcome = "ReadError") =>
          ExportName \in download_dir.files

\* the latest cycles were exported by an object that has an output directory
C17_Witness ==
    /\ op = "_get_cycles_data" /\ arg = "Latest" /\ outcome = "returned"
    /\ output_dir.given /\ "Latest Cycles.xlsx" \in output_dir.files
    /\ download_dir.files = {}

-----------------------------------------------------------------------------
(* C15: the command-line callers *)

\* C15 as stated: whenever update_sheets or gen_pdfs has ended after creating
\* its SRPO object, by whichever exit, SRPO.cleanup has run: the last thing
\* done with the object is cleanup, the browser is not left open and the
\* temporary directory is gone.
C15_CleanupOnEveryExit ==
    main_pc \in Ended =>
        /\ op = "cleanup"
        /\ driver # "open"
        /\ ~download_dir.exists

-----------------------------------------------------------------------------
(* C18, C19, C20: the tables of a record *)

\* a table that is absent, or there once with no row
EmptyTables(tabs) == tabs = <<>> \/ tabs = << <<>> >>

\* the occurrences of ", " in a text
Separators(text) == {i \in 1..(Len(text) - 1) : text[i] = "," /\ text[i + 1] = " "}

\* what parse needs of a record besides its tables: one title with the
\* separator once, a neighbourhood, a start date
RestWellFormed(m) ==
    /\ Len(m.titles) = 1 /\ Cardinality(Separators(m.titles[1])) = 1
    /\ \E i \in 1..Len(m.locations) : m.locations[i].subdivision
    /\ \A i \in 1..Len(m.locations) :
          m.locations[i].subdivision => Len(m.locations[i].ps) = 1
    /\ \E i \in 1..Len(m.dates) : m.dates[i].start

C19_SingletonsRequired ==
    (/\ result.done
     /\ \/ Len(markup.titles) # 1
        \/ Len(markup.f_tables) > 1
        \/ Len(markup.p_tables) > 1)
    => (result.exc # "" /\ result.activity = <<>>)

\* a row with a name cell
HasName(row) ==
    \E j \in 1..Len(row) :
        "basicNameCol" \in row[j].cls \/ "participantsNameCol" \in row[j].cls

\* C20 as stated: the Persons of a table are those of its rows that have a name
\* cell: no Person without a name is produced, and the others are what the
\* table without its nameless rows gives.
C20_NamelessDropped ==
    (result.done /\ result.exc = "") =>
        /\ Len(markup.p_tables) = 1 =>
              /\ \A k \in 1..Len(result.activity[1].participants) :
                    result.activity[1].participants[k].name # <<>>
              /\ result.activity[1].participants
                    = parse_person_table(SelectSeq(markup.p_tables[1], HasName)).people
        /\ Len(markup.f_tables) = 1 =>
              /\ \A k \in 1..Len(result.activity[1].facilitators) :
                    result.activity[1].facilitators[k].name # <<>>
              /\ result.activity[1].facilitators
                    = parse_person_table(SelectSeq(markup.f_tables[1], HasName)).people

-----------------------------------------------------------------------------
(* C21: the optional markers of a record *)

\* no location widget of the record refers to the subdivision-name binding
NoSubdivision(m) == \A i \in 1..Len(m.locations) : ~m.locations[i].subdivision

\* what parse needs of a record besides its optional markers: tables that parse,
\* one title with the separator once, a start date, and one paragraph in each
\* subdivision widget that is there
RequiredWellFormed(m) ==
    /\ person_table_or_empty(m.f_tables).exc = ""
    /\ person_table_or_empty(m.p_tables).exc = ""
    /\ Len(m.titles) = 1 /\ Cardinality(Separators(m.titles[1])) = 1
    /\ \A i \in 1..Len(m.locations) :
          m.locations[i].subdivision => Len(m.locations[i].ps) = 1
    /\ \E i \in 1..Len(m.dates) : m.dates[i].start

\* C21 as stated: a record with no subdivision widget gives an Activity (parse
\* does not fail), and so does a record with no has-service-projects paragraph,
\* whose Activity has the service-projects flag unset.
C21_OptionalMarkersAbsent ==
    (result.done /\ RequiredWellFormed(markup)) =>
        /\ NoSubdivision(markup) => (result.exc = "" /\ Len(result.activity) = 1)
        /\ (markup.service = <<>> /\ ~NoSubdivision(markup)) =>
              /\ result.exc = "" /\ Len(result.activity) = 1
              /\ result.activity[1].doing_service_projects = <<>>

-----------------------------------------------------------------------------
(* C22, C23, C25: the derived type of an Activity, its label, its tables *)

Kinds ==
    {str_Childrens_Class, str_Study_Circle, str_Junior_Youth_Group,
     str_Unknown_Activity_Type}

\* the stage begins with one of the tokens
BeginsWithOneOf(stage, tokens) == \E t \in Range(tokens) : startswith(stage, t)

\* the three token lists, each with the type it stands for
ListTypes ==
    << [tokens |-> ActivityParser_study_circle_books, type |-> str_Study_Circle],
       [tokens |-> ActivityParser_junior_youth_texts, type |-> str_Junior_Youth_Group],
       [tokens |-> ActivityParser_childrens_class_grades, type |-> str_Childrens_Class] >>

\* the orders in which the three lists can be tested
Orders == {o \in [1..3 -> 1..3] : \A i, j \in 1..3 : o[i] = o[j] => i = j}

\* the type of the first list, in the order o, that has a token the stage
\* begins with
TypeInOrder(stage, o) ==
    LET hits == {n \in 1..3 : BeginsWithOneOf(stage, ListTypes[o[n]].tokens)}
    IN  IF hits = {} THEN str_Unknown_Activity_Type
        ELSE ListTypes[o[Min(hits)]].type

\* C22: the derived type is one of the four types and is decided by the stage
\* alone: children's class when the stage begins with a grade label, study
\* circle when it begins with a book label, junior youth group when it begins
\* with one of the twelve titles, unknown otherwise; testing the three lists
\* in any other order gives the same type.
C22_TypeOfStage ==
    doc.kind # <<>> =>
        LET stage == subject[1].stage
            type == doc.kind[1]
        IN  /\ type \in Kinds
            /\ BeginsWithOneOf(stage, ActivityParser_childrens_class_grades)
                  => type = str_Childrens_Class
            /\ BeginsWithOneOf(stage, ActivityParser_study_circle_books)
                  => type = str_Study_Circle
            /\ BeginsWithOneOf(stage, ActivityParser_junior_youth_texts)
                  => type = str_Junior_Youth_Group
            /\ (\A n \in 1..3 : ~BeginsWithOneOf(stage, ListTypes[n].tokens))
                  => type = str_Unknown_Activity_Type
            /\ \A o \in Orders : TypeInOrder(stage, o) = type

\* the type of a stage that is a title followed by more text was derived
C22_Witness ==
    /\ doc.kind = << str_Junior_Youth_Group >>
    /\ subject[1].stage \notin StageTokens

\* the text of a title before its separator, and after it
BeforeSeparator(title) == SubSeq(title, 1, Min(Separators(title)) - 1)

AfterSeparator(title) == SubSeq(title, Min(Separators(title)) + 2, Len(title))

\* C23: for a record whose title is "S, L", the display label of the Activity
\* parse returned is the derived type of S, then ", ", then S, then " - ",
\* then L.
C23_DisplayLabel ==
    (result.done /\ result.exc = "" /\ doc.label # <<>>) =>
        LET S == BeforeSeparator(markup.titles[1])
            L == AfterSeparator(markup.titles[1])
        IN  doc.label[1]
                = TypeInOrder(S, <<1, 2, 3>>) \o <<",", " ">> \o S \o <<" ", "-", " ">> \o L

\* the label of a record titled "Spirit of Faith, Colwood" was built
C23_Witness ==
    /\ result.done /\ result.exc = "" /\ doc.label # <<>>
    /\ BeforeSeparator(markup.titles[1]) \in Range(ActivityParser_junior_youth_texts)
    /\ Len(doc.label[1]) > Len(markup.titles[1])

\* generate_pdf was called on the Activity and ended
PdfCalled == subject # <<>> /\ (doc.document # <<>> \/ doc.exc # "")

\* "Unknown stage:"
UnknownStageLabel ==
    <<"U", "n", "k", "n", "o", "w", "n", " ", "s", "t", "a", "g", "e", ":">>

\* "Unknown facilitator type", before the plural and the colon
UnknownFacilitatorLabel ==
    <<"U", "n", "k", "n", "o", "w", "n", " ", "f", "a", "c", "i", "l", "i", "t", "a", "t", "o", "r", " ", "t", "y", "p", "e">>

\* C25 as stated: for an Activity whose stage begins with no token of the
\* three lists, the derived type is the unknown one, and building the
\* information table and the participants table ends without an exception,
\* with the placeholder labels for the stage and for the facilitators.
C25_UnknownTypeTables ==
    (/\ subject # <<>>
     /\ \A n \in 1..3 : ~BeginsWithOneOf(subject[1].stage, ListTypes[n].tokens))
    => /\ doc.kind # <<>> => doc.kind = << str_Unknown_Activity_Type >>
       /\ PdfCalled =>
             /\ doc.exc = "" /\ Len(doc.document) = 1
             /\ doc.document[1].info.stage_label = UnknownStageLabel
             /\ startswith(doc.document[1].info.facilitator_label, UnknownFacilitatorLabel)
             /\ Len(doc.document[1].participants.rows) = Len(subject[1].participants)

-----------------------------------------------------------------------------
(* C24, C28: the link classifier *)

\* the elements of a set of numbers as a sequence, in increasing order
Increasing(S) == [n \in 1..Cardinality(S) |-> Nth(S, n)]

\* the positions the loop over the anchors keeps when its inner loop runs
\* over the tokens in the order of prefixes
SelectedWith(anchors, prefixes) ==
    SelectSeq([i \in 1..Len(anchors) |-> i],
              LAMBDA i : first_prefix(anchors[i], prefixes, 1) # 0)

Reverse(seq) == [i \in 1..Len(seq) |-> seq[Len(seq) + 1 - i]]

\* orders of the tokens: the three lists in each of their six orders, and each
\* of these backwards
TokenOrders ==
    LET G == childrens_class_grades
        B == study_circle_books
        T == junior_youth_texts
        lists == {G \o B \o T, G \o T \o B, B \o G \o T, B \o T \o G, T \o G \o B, T \o B \o G}
    IN  lists \cup {Reverse(l) : l \in lists}

\* C24: _get_activity_links returns exactly the anchors whose accessible name
\* starts with at least one token, each once, in the order of the anchors, and
\* the same for every order of the tokens and of the three lists.
C24_LinksSelected ==
    li # 0 =>
        /\ links = Increasing(RecordPositions)
        /\ \A prefixes \in TokenOrders : SelectedWith(layout, prefixes) = links

\* of two anchors the first was left out and the second returned
C24_Witness == li # 0 /\ Len(layout) = 2 /\ links = <<2>>

\* "Book x"
BookLabel(x) == str_Book \o decimal(x)

\* the book a token of study_circle_books is for
BookOfToken(j) == IF j <= 7 THEN j ELSE 8 + ((j - 8) \div 3)

\* the book tokens an accessible name starts with
BookTokensOf(name) ==
    {j \in 1..Len(study_circle_books) : startswith(name, study_circle_books[j])}

\* C28: an anchor whose name begins with the label of book 10 to 14 is not
\* matched by the token of book 1, every returned anchor that names a book
\* starts with exactly one book token, and that token is the one of the book
\* the name gives.
C28_NoSimilarBook ==
    li # 0 =>
        \A i \in 1..Len(layout) :
            /\ (\E x \in 10..14 : startswith(layout[i], BookLabel(x)))
                  => ~startswith(layout[i], study_circle_books[1])
            /\ (i \in Range(links) /\ startswith(layout[i], str_Book)) =>
                  /\ Cardinality(BookTokensOf(layout[i])) = 1
                  /\ \A j \in BookTokensOf(layout[i]), x \in 1..14 :
                        (\E c \in {",", " "} : startswith(layout[i], BookLabel(x) \o <<c>>))
                            => BookOfToken(j) = x

\* an anchor named "Book 1x (Uy), ..." was returned
C28_Witness ==
    /\ li # 0 /\ links # <<>>
    /\ \E x \in 10..14 : startswith(layout[links[1]], BookLabel(x) \o <<" ", "(", "U">>)

-----------------------------------------------------------------------------
(* C26, C27: the command-line callers and what they pass on *)

\* the positions of the log of the Sheet object at which a clear or an update
\* request was sent
WritePositions == {k \in 1..Len(sheet) : sheet[k] \in {"clear", "update"}}

\* C26: in update_sheets, for each of the three data types, a clear or update
\* request is sent only after the header check has run and returned true; when
\* the check returns false or cannot be performed, none is sent.
C26_UpdateAfterValidation ==
    main_pc # "none" =>
        /\ \A k \in WritePositions :
              /\ prog.script = "update_sheets"
              /\ \E j \in 1..(k - 1) : sheet[j] = "True"
        /\ (\E j \in 1..Len(sheet) : sheet[j] \in {"False", "HttpError", "AttributeError"})
              => WritePositions = {}

\* update_sheets ended after a header check that returned true, the clear
\* request and the update request
C26_Witness ==
    /\ main_pc # "none" /\ main_pc = "end"
    /\ sheet = <<"get", "True", "clear", "update">>

\* C27 as stated: for each of the four choices of gen_pdfs, the label it passes
\* to get_activities is one of the four labels of valid_activities, so the
\* assertion of get_activities holds.
C27_LabelsAccepted ==
    (main_pc # "none" /\ prog.script = "gen_pdfs") =>
        \E n \in 1..Len(valid_activities) : gen_pdfs_label(prog.type) = valid_activities[n]

-----------------------------------------------------------------------------
(* C29, C30: the title and the rows of a record *)

\* C29: for a record with one title, the Activity parse returns has the text
\* before the separator as its stage and the text after it as its locality,
\* and the title has the separator exactly once; a title with no separator or
\* with more than one makes parse fail (a title with one does not).
C29_TitleSplit ==
    (result.done /\ Len(markup.titles) = 1) =>
        LET title == markup.titles[1]
            n == Cardinality(Separators(title))
        IN  /\ n # 1 => (result.exc # "" /\ result.activity = <<>>)
            /\ result.exc = "" =>
                  /\ n = 1
                  /\ result.activity[1].stage = BeforeSeparator(title)
                  /\ result.activity[1].locality = AfterSeparator(title)
            /\ (n = 1 /\ RequiredWellFormed(markup) /\ ~NoSubdivision(markup))
                  => result.exc = ""

\* parse returned "Picnic" and "Sooke" for the title "Picnic, Sooke"
C29_Witness ==
    /\ result.done /\ result.exc = "" /\ Len(markup.titles) = 1
    /\ result.activity[1].stage = <<"P", "i", "c", "n", "i", "c">>
    /\ result.activity[1].locality = <<"S", "o", "o", "k", "e">>

\* the texts of the cells of a row that carry one of the classes
CellValues(row, classes) ==
    {row[j].val : j \in {c \in 1..Len(row) : row[c].cls \cap classes # {}}}

NameCols == {"basicNameCol", "participantsNameCol"}

LocalityCols == {"basicLocalityCol", "participantsLocalityCol"}

CurrentCols == {"basicIsCurrentCol", "participantsIsCurrentCol"}

BahaiCols == {"participantsIsRegisteredBahaiCol"}

\* the Persons of a table take each field from the cells of their own row
RowLocal(rows, people) ==
    /\ Len(people) = Len(rows)
    /\ \A k \in 1..Len(rows) :
          /\ people[k].name
                \in (IF CellValues(rows[k], NameCols) = {} THEN { <<>> }
                     ELSE { <<v>> : v \in CellValues(rows[k], NameCols) })
          /\ people[k].isBahai
                \in (IF CellValues(rows[k], BahaiCols) = {} THEN { <<>> }
                     ELSE { << v = "Yes" >> : v \in CellValues(rows[k], BahaiCols) })
          /\ IF CellValues(rows[k], LocalityCols) = {}
             THEN \A e \in 1..(k - 1) :
                     people[k].locality \notin CellValues(rows[e], LocalityCols)
             ELSE people[k].locality \in CellValues(rows[k], LocalityCols)
          /\ IF CellValues(rows[k], CurrentCols) = {}
             THEN \A e \in 1..(k - 1) :
                     people[k].isCurrent
                        \notin { v = "checked" : v \in CellValues(rows[e], CurrentCols) }
             ELSE people[k].isCurrent
                     \in { v = "checked" : v \in CellValues(rows[k], CurrentCols) }

\* C30 as stated: every Person of a table takes its name, locality,
\* currently-active flag and registered flag from the cells of its own row; a
\* row without a locality cell or a currently-active cell gives no Person with
\* the value of an earlier row, and the registered flag is unset for a row
\* without a registered cell.
C30_RowLocal ==
    (result.done /\ result.exc = "") =>
        /\ Len(markup.p_tables) = 1
              => RowLocal(markup.p_tables[1], result.activity[1].participants)
        /\ Len(markup.f_tables) = 1
              => RowLocal(markup.f_tables[1], result.activity[1].facilitators)

-----------------------------------------------------------------------------
(* C31: a record without a neighbourhood after one that had it *)

\* the record parsed now has no subdivision widget, and the one parsed before
\* it gave an Activity
AfterNeighbourhood ==
    /\ result.done /\ earlier # <<>>
    /\ NoSubdivision(markup)
    /\ earlier[Len(earlier)].result.exc = ""

\* C31 as stated: the Activity of a record with no subdivision widget, parsed
\* after a record that had one, carries the neighbourhood of that record.
C31_CarriedOver ==
    AfterNeighbourhood =>
        /\ result.exc = "" /\ Len(result.activity) = 1
        /\ result.activity[1].neighbourhood
              = earlier[Len(earlier)].result.activity[1].neighbourhood

\* C31 amended: parse returns no Activity for such a record; it fails, with
\* UnboundLocalError when the rest of the record is complete, and nothing of
\* the record before is carried over.
C31_NothingCarried ==
    AfterNeighbourhood =>
        /\ result.exc # "" /\ result.activity = <<>>
        /\ RequiredWellFormed(markup) => result.exc = "UnboundLocalError"

\* a complete record without a subdivision widget was parsed after a record
\* with the neighbourhood "Downtown"
C31_Witness ==
    /\ AfterNeighbourhood /\ RequiredWellFormed(markup)
    /\ earlier[Len(earlier)].result.activity[1].neighbourhood = "Downtown"

-----------------------------------------------------------------------------
(* C32: the copies in the output directory *)

\* C32 as stated: when the SRPO object was constructed with an output
\* directory, a file that is gone from the temporary download directory after
\* its export (latest cycles, all cycles, individuals) has a copy in the
\* output directory.
C32_EveryExportCopied ==
    (/\ output_dir.given
     /\ op \in ExportOps /\ outcome = "returned"
     /\ ExportName \notin download_dir.files)
    => ExportName \in output_dir.files

-----------------------------------------------------------------------------
(* C33: set_area when no span carries the label *)

\* the tree polling of set_area has ended and no span of its last poll has
\* the area label as its text
NoSpanForArea ==
    /\ op = "set_area" /\ phase \in {"click_area", "settle", "done"}
    /\ \A i \in 1..Len(spans.items) : spans.items[i].text # arg

\* the settle delays set_area has slept
SettleSleeps == {j \in 1..Len(log) : log[j].act = "sleep" /\ log[j].key = "delay"}

\* C33: when no span has the area label after the tree polling has ended,
\* set_area clicks no label and sleeps no settle delay (so the scope is as it
\* was), does not return, and fails with an error that is not a Timeout.
C33_NoSpanNoClick ==
    NoSpanForArea =>
        /\ AreaClicks = {} /\ SettleSleeps = {}
        /\ phase = "click_area"
        /\ outcome \in {"running", "ValueError"}

\* set_area failed after a poll that saw spans, none with the label
C33_Witness ==
    /\ NoSpanForArea /\ outcome = "ValueError" /\ Len(spans.items) = 2

-----------------------------------------------------------------------------
(* C35: the OK button of the verification prompt *)

\* the one-time code has been typed into the verification prompt
CodeTyped ==
    \E j \in 1..Len(log) : log[j].act = "send_keys" /\ log[j].key = VerificationPrompt

\* the OK button has been clicked
OkClicked ==
    \E j \in 1..Len(log) : log[j].act = "click" /\ log[j].key = "OK"

\* C35: in get_individuals_data, once the one-time code has been typed into
\* the verification prompt, the wait for the downloaded file does not start
\* before the OK button has been clicked, and no Timeout of the wait for the
\* OK button is swallowed.
C35_OkBeforeDownload ==
    (op = "get_individuals_data" /\ CodeTyped) =>
        /\ phase = "download" => OkClicked
        /\ 6 \notin swallowed

-----------------------------------------------------------------------------
(* C34: the tokens of the link classifier and of the derived type *)

\* the anchors of the page whose accessible name has the form "S, L"
TitledAnchors == {i \in 1..Len(layout) : Separators(layout[i]) # {}}

\* C34: an anchor named "S, L" is returned by _get_activity_links if and only
\* if the derived type of an Activity of stage S is not the unknown type.
C34_ListsAgree ==
    li # 0 =>
        \A i \in TitledAnchors :
            (i \in Range(links))
                <=> (get_activity_type([stage |-> BeforeSeparator(layout[i])])
                        # str_Unknown_Activity_Type)

=============================================================================
